---- MODULE Spec2Model ----
(***************************************************************************)
(* Admission-control scheduling loop (core/orchestrator.py), the priority  *)
(* task bus (core/redis_bus.py) and the role hot-swap protocol             *)
(* (core/shift_manager.py) of the GENOM administration.                    *)
(*                                                                         *)
(* Amounts of Units (budget, cost) are fixed-point numbers counted in      *)
(* tenths of a Unit: 1000.0 Units is 10000.  Replies of the inference      *)
(* endpoint are tuples of one-character strings.                           *)
(***************************************************************************)
EXTENDS Integers, Sequences, FiniteSets, TLC

VARIABLES
    lanes,          \* Redis lists, one per QueuePriority: head at index 1
    stamps,         \* number of LPUSH commands the store has served
    budget,         \* Orchestrator._budget, in tenths of a Unit
    running,        \* Orchestrator._running
    cycle_count,    \* Orchestrator._cycle_count
    pc,             \* position of Orchestrator.start
    logs,           \* Redis streams, one per LogStream
    dispatched,     \* task ids handed to WorkerExecutor.execute, in order
    last,           \* what the most recent _cycle call did
    current_role,   \* ShiftManager._current_role
    shift_history,  \* ShiftManager._shift_history
    shift_env,      \* what the runtime answered to the most recent shift
    produced,       \* number of tasks the producers have pushed
    startup,        \* what start found: the store and the endpoint
    call,           \* a call of a pure function: its argument and its result
    xstream,        \* a Redis stream written by RedisBus.log, and its reader
    popped,         \* task ids pop_task has returned to a direct caller
    inflight,       \* execute_shift calls suspended at an await
    jobs,           \* scheduler.JOBS: the job table and its counters
    checked,        \* what the most recent Scheduler._check_jobs call did
    consecutive_critical,   \* the counter of run_watchdog
    watch,          \* what the most recent pass of run_watchdog did
    registry        \* GenomeBank._registry

vars == <<lanes, stamps, budget, running, cycle_count, pc, logs, dispatched,
          last, current_role, shift_history, shift_env, produced, startup,
          call, xstream, popped, inflight, jobs, checked,
          consecutive_critical, watch, registry>>

orchVars == <<lanes, stamps, budget, running, cycle_count, pc, logs,
              dispatched, last, produced, startup>>

shiftVars == <<current_role, shift_history, shift_env>>

auxVars == <<call, xstream, popped>>

sideVars == <<inflight, jobs, checked, consecutive_critical, watch, registry>>

None == "None"

-----------------------------------------------------------------------------
(* Bounds of the model *)

MaxPushes == 2      \* push_task calls made by producers (CLI, REST, jobs)
MaxCycles == 2      \* _cycle calls of one run
MaxShifts == 2      \* execute_shift calls
MaxHistoryShifts == 21  \* execute_shift calls of a console walking the roles
MaxLogCalls == 220  \* log calls of one run
MaxChecks == 3      \* Scheduler._check_jobs calls
MaxReadings == 7    \* passes of the loop of run_watchdog
MaxVersions == 2    \* versions the bank holds, of all roles together
MaxBusPushes == 3   \* push_task calls of the callers of the bus

-----------------------------------------------------------------------------
(* core/redis_bus.py *)

\* QueuePriority, in the order the enum is iterated
QueuePriority == <<"QUEUE:CRITICAL", "QUEUE:EXPORT", "QUEUE:INTERNAL">>

Lanes == {QueuePriority[i] : i \in 1..Len(QueuePriority)}

LogStream == {"LOG:DECISIONS", "LOG:TASKS", "LOG:INCIDENTS"}

\* priority_map.get(task.priority, QueuePriority.INTERNAL)
PriorityMap(p) ==
    CASE p = "critical" -> "QUEUE:CRITICAL"
      [] p = "export"   -> "QUEUE:EXPORT"
      [] p = "internal" -> "QUEUE:INTERNAL"
      [] OTHER          -> "QUEUE:INTERNAL"

\* the lane push_task writes to
PushLane(task, priority) ==
    IF priority = None THEN PriorityMap(task.priority) ELSE priority

\* LPush as RPUSH: the value becomes the tail of the list
LPushAtTail(ls, lane, entry) == [ls EXCEPT ![lane] = Append(@, entry)]

\* LPUSH key value: the value becomes the head of the list
LPush(ls, lane, entry) == [ls EXCEPT ![lane] = <<entry>> \o @]

\* push_task that skips a task one of the lanes already holds
push_task_unique(ls, n, task, priority) ==
    IF \E l \in Lanes : \E i \in 1..Len(ls[l]) : ls[l][i].task = task
    THEN ls
    ELSE LPush(ls, PushLane(task, priority), [task |-> task, stamp |-> n + 1])

\* push_task: the queued value carries the serial number of its LPUSH
push_task(ls, n, task, priority) ==
    LPush(ls, PushLane(task, priority), [task |-> task, stamp |-> n + 1])

\* BRPOP that serves the last key, in the order given, whose list is
\* non-empty
BRPopKey_last(ls) ==
    IF \E i \in 1..Len(QueuePriority) : ls[QueuePriority[i]] # <<>>
    THEN CHOOSE i \in 1..Len(QueuePriority) :
            /\ ls[QueuePriority[i]] # <<>>
            /\ \A j \in (i + 1)..Len(QueuePriority) : ls[QueuePriority[j]] = <<>>
    ELSE 0

\* BRPOP k1 k2 k3: the first key, in the order given, whose list is non-empty
\* (0: every list is empty and the call times out)
BRPopKey(ls) ==
    IF \E i \in 1..Len(QueuePriority) : ls[QueuePriority[i]] # <<>>
    THEN CHOOSE i \in 1..Len(QueuePriority) :
            /\ ls[QueuePriority[i]] # <<>>
            /\ \A j \in 1..(i - 1) : ls[QueuePriority[j]] = <<>>
    ELSE 0

\* BRPOP takes the tail of the list
RPopped(list) == list[Len(list)]

\* BRPOP that takes every value of the list with it
RPopRest_all(list) == <<>>

RPopRest(list) == SubSeq(list, 1, Len(list) - 1)

\* pop_task that reads the tail of the list and leaves it there
pop_task_peek(ls) ==
    LET k == BRPopKey(ls)
    IN  IF k = 0 THEN None
        ELSE LET lane == QueuePriority[k]
             IN  [lane  |-> lane,
                  entry |-> RPopped(ls[lane]),
                  lanes |-> ls]

\* pop_task: [lane, entry, lanes] of the pop, or None on timeout
pop_task(ls) ==
    LET k == BRPopKey(ls)
    IN  IF k = 0 THEN None
        ELSE LET lane == QueuePriority[k]
             IN  [lane  |-> lane,
                  entry |-> RPopped(ls[lane]),
                  lanes |-> [ls EXCEPT ![lane] = RPopRest(@)]]

\* log: XADD appends one entry to the stream
bus_log(lg, stream, data) == [lg EXCEPT ![stream] = Append(@, data)]

-----------------------------------------------------------------------------
(* core/resource_monitor.py *)

\* is_critical without the temperature test
is_critical_ram_only(snapshot) == snapshot.ram_percent > 90

\* SystemSnapshot.is_critical
is_critical(snapshot) ==
    IF snapshot.ram_percent > 90 THEN TRUE
    ELSE IF snapshot.has_temp /\ snapshot.cpu_temp_celsius > 85
         THEN TRUE
         ELSE FALSE

\* readings take_snapshot can return (has_temp: get_cpu_temp() is not None)
Snapshots ==
    { [ram_percent |-> 50, has_temp |-> TRUE,  cpu_temp_celsius |-> 60],
      [ram_percent |-> 50, has_temp |-> TRUE,  cpu_temp_celsius |-> 90],
      [ram_percent |-> 95, has_temp |-> FALSE, cpu_temp_celsius |-> 0] }

-----------------------------------------------------------------------------
(* security/static_analysis.py: the code of a payload is given by the      *)
(* severities of the findings the pattern scan makes in it                 *)

severity_weights(s) ==
    CASE s = "low"      -> 1
      [] s = "medium"   -> 2
      [] s = "high"     -> 4
      [] s = "critical" -> 8

RECURSIVE SumWeights(_)
SumWeights(findings) ==
    IF findings = <<>> THEN 0
    ELSE severity_weights(Head(findings)) + SumWeights(Tail(findings))

\* _calculate_risk
calculate_risk(findings) ==
    IF findings = <<>> THEN 0
    ELSE IF SumWeights(findings) < 10 THEN SumWeights(findings) ELSE 10

\* analyze_code(...).safe
analyze_safe(findings) ==
    /\ calculate_risk(findings) <= 3
    /\ ~ \E i \in 1..Len(findings) : findings[i] = "critical"

-----------------------------------------------------------------------------
(* core/orchestrator.py: _estimate_cost *)

Digits == {"0", "1", "2", "3", "4", "5", "6", "7", "8", "9"}

DigitVal(c) ==
    CASE c = "0" -> 0 [] c = "1" -> 1 [] c = "2" -> 2 [] c = "3" -> 3
      [] c = "4" -> 4 [] c = "5" -> 5 [] c = "6" -> 6 [] c = "7" -> 7
      [] c = "8" -> 8 [] c = "9" -> 9

IsDigit(text, i) == i >= 1 /\ i <= Len(text) /\ text[i] \in Digits

\* where the first match of \d+(?:\.\d+)? starts (0: findall returns [])
MatchStart(text) ==
    IF \E i \in 1..Len(text) : IsDigit(text, i)
    THEN CHOOSE i \in 1..Len(text) :
            IsDigit(text, i) /\ \A j \in 1..(i - 1) : ~IsDigit(text, j)
    ELSE 0

\* the last index of the greedy digit run that starts at i
RunEnd(text, i) ==
    CHOOSE e \in i..Len(text) :
        /\ \A j \in i..e : IsDigit(text, j)
        /\ ~IsDigit(text, e + 1)

RECURSIVE DigitsValue(_, _, _)
\* the decimal value of the digits text[i..e]
DigitsValue(text, i, e) ==
    IF e < i THEN 0
    ELSE DigitsValue(text, i, e - 1) * 10 + DigitVal(text[e])

\* float(numbers[0]) in tenths; of a fraction the first digit is kept
FirstNumber(text) ==
    LET s  == MatchStart(text)
        e  == RunEnd(text, s)
        fr == e + 1 <= Len(text) /\ text[e + 1] = "." /\ IsDigit(text, e + 2)
    IN  DigitsValue(text, s, e) * 10
            + (IF fr THEN DigitVal(text[e + 2]) ELSE 0)

FallbackCost == 5

\* _estimate_cost that reads the body whatever the status
estimate_cost_any_status(reply) ==
    IF reply.kind = "exception" THEN FallbackCost * 10
    ELSE IF reply.kind = "malformed" THEN FallbackCost * 10
    ELSE IF MatchStart(reply.text) = 0 THEN FallbackCost * 10
    ELSE FirstNumber(reply.text)

\* _estimate_cost: the reply of POST /api/generate to a cost, in tenths
\* (malformed: resp.json() raises, or returns something without .get)
estimate_cost(reply) ==
    IF reply.kind = "exception" THEN FallbackCost * 10
    ELSE IF reply.status # "200" THEN FallbackCost * 10
    ELSE IF reply.kind = "malformed" THEN FallbackCost * 10
    ELSE IF MatchStart(reply.text) = 0 THEN FallbackCost * 10
    ELSE FirstNumber(reply.text)

\* resp.json().get("response", "5")
DefaultReplyText == <<"5">>

ReplyTexts ==
    { DefaultReplyText, <<>>, <<"n", "-", "5">>, <<"5", ".", "0">>,
      <<"1", "2", "0", "0">>, <<"6", "0", "0", " ", "9">> }

\* what the inference endpoint can answer to the cost request
CostReplies ==
    { [kind |-> "response", status |-> "200", text |-> t] : t \in ReplyTexts }
    \cup { [kind |-> "response", status |-> "500", text |-> <<"9">>],
           [kind |-> "exception", status |-> "", text |-> <<>>] }

-----------------------------------------------------------------------------
(* worker/executor.py: what WorkerExecutor.execute returns *)

\* answers of POST /api/generate to a dispatch; duration in seconds
ExecResponses ==
    { [status |-> "200", duration_sec |-> 2],
      [status |-> "500", duration_sec |-> 2],
      [status |-> "timeout", duration_sec |-> 300] }

\* ExecutionResult.success
execute_success(resp) == resp.status = "200"

-----------------------------------------------------------------------------
(* Tasks the producers push *)

\* payload: whether it has the key "code", and the findings of its code
NoCode == [has_code |-> FALSE, findings |-> <<>>]

CodeWith(findings) == [has_code |-> TRUE, findings |-> findings]

\* push_task calls of the producers: task.priority, the priority argument
\* (None: not passed) and the payload
Submissions ==
    { [priority |-> "critical", explicit |-> None, payload |-> NoCode],
      [priority |-> "export",   explicit |-> None,
       payload |-> CodeWith(<<"critical">>)],
      [priority |-> "internal", explicit |-> None,
       payload |-> CodeWith(<<"low">>)],
      [priority |-> "urgent",   explicit |-> None,
       payload |-> CodeWith(<<"medium", "medium">>)],
      [priority |-> "export",   explicit |-> "QUEUE:CRITICAL",
       payload |-> NoCode] }

-----------------------------------------------------------------------------
(* core/orchestrator.py *)

InitialBudget == 1000

NoSnapshot == [ram_percent |-> 0, has_temp |-> FALSE, cpu_temp_celsius |-> 0]

\* the record of a cycle: the snapshot it took, the entry it popped (stamp 0:
\* none) and its lane, the cost it estimated, the status the executor got
\* ("none": not invoked) and how the call ended
NoCycle ==
    [outcome |-> "none", snapshot |-> NoSnapshot, lane |-> None,
     task_id |-> 0, stamp |-> 0, cost |-> 0, exec_status |-> "none"]

\* no call of a pure function is being followed
NoCall == [fn |-> "none", arg |-> None, wire |-> None, out |-> None,
           done |-> FALSE]

\* no read_log call since the last log call
NoRead == [called |-> FALSE, cursor |-> 0, lo |-> 0, hi |-> 0]

\* a stream no entry was added to.  Entry ids are numbered in the order the
\* store assigns them; a stream holds the entries first..last (0: none).
\* returned is the id the last log call returned, mark an id a log call
\* returned earlier, which a reader keeps as its cursor, calls the number of
\* log calls made, read the read_log call made since the last log call
NoStream ==
    [first |-> 0, last |-> 0, returned |-> 0, mark |-> 0, calls |-> 0,
     read |-> NoRead]

\* ScheduledJob(name, task_type, payload, interval_sec, priority) with the
\* defaults of the dataclass: enabled, never run
ScheduledJob(name, task_type, interval_sec, priority) ==
    [name |-> name, task_type |-> task_type, interval_sec |-> interval_sec,
     priority |-> priority, enabled |-> TRUE, last_run |-> 0, run_count |-> 0]

\* JOBS, in the order of the list
JOBS ==
    << ScheduledJob("system_health_check",
                    <<"s", "y", "s", "a", "d", "m", "i", "n">>,
                    300, "internal"),
       ScheduledJob("security_scan",
                    <<"a", "u", "d", "i", "t", "o", "r">>,
                    1800, "export"),
       ScheduledJob("log_cleanup",
                    <<"c", "l", "e", "a", "n", "e", "r">>,
                    3600, "internal"),
       ScheduledJob("resource_forecast",
                    <<"e", "c", "o", "n", "o", "m", "i", "s", "t">>,
                    3600, "internal"),
       ScheduledJob("daily_report",
                    <<"a", "u", "d", "i", "t", "o", "r">>,
                    86400, "export") >>

\* no _check_jobs call was made: the clock it read, whether it found the
\* snapshot critical, the jobs it found due, the calls of _submit_job it
\* made and the task ids the bus accepted, and the number of calls made
NoCheck ==
    [now |-> 0, critical |-> FALSE, due |-> {}, submit_calls |-> <<>>,
     pushed |-> <<>>, calls |-> 0]

\* no pass of the watchdog loop was made: the classes of the readings of the
\* passes so far, whether the last pass ran emergency_action, the containers
\* that were running then and the ones it stopped
NoWatch ==
    [readings |-> <<>>, fired |-> FALSE, running |-> {}, stopped |-> {}]

\* roles whose versions the bank holds
BankRoles == {"sysadmin", "auditor"}

\* the orchestrator, the bus and the shift manager after construction
Constructed ==
    /\ lanes = [l \in Lanes |-> <<>>]
    /\ stamps = 0
    /\ produced = 0
    /\ budget = InitialBudget * 10
    /\ running = FALSE
    /\ cycle_count = 0
    /\ pc = "init"
    /\ logs = [s \in LogStream |-> <<>>]
    /\ dispatched = <<>>
    /\ last = NoCycle
    /\ current_role = "none"
    /\ shift_history = <<>>
    /\ shift_env = None
    /\ startup = [called |-> FALSE, store_up |-> FALSE, endpoint_up |-> FALSE]
    /\ popped = <<>>
    /\ inflight = <<>>
    /\ jobs = JOBS
    /\ checked = NoCheck
    /\ consecutive_critical = 0
    /\ watch = NoWatch
    /\ registry = [role \in BankRoles |-> <<>>]

Init == Constructed /\ call = NoCall /\ xstream = NoStream

\* ping that takes a refused connection for an answer
ping_unchecked(answer) == TRUE

\* RedisBus.ping
ping(answer) == IF answer = "ConnectionError" THEN FALSE ELSE TRUE

\* a producer (genome_cli, dashboard, scheduler, or any caller of the bus)
\* pushes a task
Push ==
    /\ produced < MaxPushes
    /\ \E sub \in Submissions :
          LET task == [task_id |-> produced + 1, priority |-> sub.priority,
                       payload |-> sub.payload]
          IN  lanes' = push_task(lanes, stamps, task, sub.explicit)
    /\ stamps' = stamps + 1
    /\ produced' = produced + 1
    /\ UNCHANGED <<budget, running, cycle_count, pc, logs, dispatched, last,
                   startup>>
    /\ UNCHANGED <<shiftVars, auxVars, sideVars>>

\* Orchestrator.start up to the loop
Start ==
    /\ pc = "init"
    /\ \E answer \in {"PONG", "ConnectionError"},
          probe \in {"200", "503", "exception"},
          fault \in {"none", "queue_lengths", "log"} :
          /\ startup' = [called |-> TRUE, store_up |-> (answer = "PONG"),
                         endpoint_up |-> (probe # "exception")]
          /\ IF ~ping(answer) \/ probe = "exception" \/ fault = "queue_lengths"
             THEN /\ pc' = "done"
                  /\ UNCHANGED <<running, logs>>
             ELSE /\ running' = TRUE
                  /\ IF fault = "log"
                     THEN pc' = "done" /\ UNCHANGED logs
                     ELSE /\ pc' = "loop"
                          /\ logs' = bus_log(logs, "LOG:DECISIONS",
                                 [event |-> "orchestrator_start",
                                  task_id |-> 0])
    /\ UNCHANGED <<lanes, stamps, produced, budget, cycle_count, dispatched,
                   last>>
    /\ UNCHANGED <<shiftVars, auxVars, sideVars>>

\* the budget gate closing only on an exhausted budget
budget_gate_exhausted(bud, cost) == bud <= 0

\* the budget gate of _cycle
budget_gate_defers(bud, cost) == bud < cost

\* the safety gate with the verdict inverted
safety_gate_inverted(payload) ==
    payload.has_code /\ analyze_safe(payload.findings)

\* the safety gate of _cycle
safety_gate_blocks(payload) ==
    payload.has_code /\ ~analyze_safe(payload.findings)

\* the gates of _cycle with the safety gate tested before the budget gate
gates_safety_first(bud, cost, payload) ==
    IF safety_gate_blocks(payload) THEN "block"
    ELSE IF budget_gate_defers(bud, cost) THEN "defer"
    ELSE "dispatch"

\* the gates a popped task meets after its cost was estimated, in the order
\* _cycle tests them: the first that closes decides
gates(bud, cost, payload) ==
    IF budget_gate_defers(bud, cost) THEN "defer"
    ELSE IF safety_gate_blocks(payload) THEN "block"
    ELSE "dispatch"

\* the deferral with the task dropped instead of pushed
defer_dropped(ls, n, task) == ls

\* the deferral of a task the budget gate stopped: bus.push_task(task)
defer(ls, n, task) == push_task(ls, n, task, None)

\* the lanes after a dispatch with a failed task pushed back for a retry
lanes_after_dispatch_retry(ls, n, task, resp) ==
    IF execute_success(resp) THEN ls ELSE push_task(ls, n, task, None)

\* the lanes after a dispatch: neither branch that follows execute pushes
lanes_after_dispatch(ls, n, task, resp) == ls

\* the budget debited whatever the dispatch returned
settle_budget_always(bud, cost, resp) == bud - cost

\* the budget after a dispatch
settle_budget(bud, cost, resp) ==
    IF execute_success(resp) THEN bud - cost ELSE bud

\* the end of a _cycle call with a failed dispatch treated as a crash
EndCycle_halts(r) ==
    /\ lanes' = r.lanes
    /\ stamps' = r.stamps
    /\ budget' = r.budget
    /\ dispatched' = r.dispatched
    /\ last' = r.last
    /\ IF r.last.outcome \in {"raised", "task_failed"}
       THEN /\ running' = FALSE
            /\ pc' = "done"
            /\ \E fault \in BOOLEAN :
                  logs' = IF fault THEN r.logs
                          ELSE bus_log(r.logs, "LOG:INCIDENTS",
                                  [event |-> "orchestrator_crash",
                                   task_id |-> r.last.task_id])
       ELSE /\ running' = running
            /\ pc' = "sleep"
            /\ logs' = r.logs

\* the end of a _cycle call: r holds what the call did; when it raised, the
\* exception leaves the while loop of start, which logs the crash and stops
EndCycle(r) ==
    /\ lanes' = r.lanes
    /\ stamps' = r.stamps
    /\ budget' = r.budget
    /\ dispatched' = r.dispatched
    /\ last' = r.last
    /\ IF r.last.outcome = "raised"
       THEN /\ running' = FALSE
            /\ pc' = "done"
            /\ \E fault \in BOOLEAN :
                  logs' = IF fault THEN r.logs
                          ELSE bus_log(r.logs, "LOG:INCIDENTS",
                                  [event |-> "orchestrator_crash",
                                   task_id |-> r.last.task_id])
       ELSE /\ running' = running
            /\ pc' = "sleep"
            /\ logs' = r.logs

\* what a cycle leaves behind when it touches nothing but its own record
Untouched(outcome, snapshot) ==
    [lanes |-> lanes, stamps |-> stamps, budget |-> budget, logs |-> logs,
     dispatched |-> dispatched,
     last |-> [NoCycle EXCEPT !.outcome = outcome, !.snapshot = snapshot]]

\* Orchestrator._cycle, called by the loop of start
Cycle ==
    /\ pc = "loop"
    /\ running
    /\ cycle_count < MaxCycles
    /\ cycle_count' = cycle_count + 1
    /\ UNCHANGED <<produced, startup>>
    /\ UNCHANGED <<shiftVars, auxVars, sideVars>>
    /\ \E snapshot \in Snapshots :
        IF is_critical(snapshot)
        THEN EndCycle(Untouched("critical", snapshot))
        ELSE \E popFault \in BOOLEAN :
        IF popFault THEN EndCycle(Untouched("raised", snapshot))
        ELSE IF BRPopKey(lanes) = 0 THEN EndCycle(Untouched("idle", snapshot))
        ELSE
        LET p    == pop_task(lanes)
            task == p.entry.task
            me(outcome, cost, status) ==
                [outcome |-> outcome, snapshot |-> snapshot, lane |-> p.lane,
                 task_id |-> task.task_id, stamp |-> p.entry.stamp,
                 cost |-> cost, exec_status |-> status]
            base == [Untouched("none", snapshot) EXCEPT !.lanes = p.lanes]
        IN  \E reply \in CostReplies, fault \in BOOLEAN :
            LET cost == estimate_cost(reply)
                gate == gates(budget, cost, task.payload)
            IN  IF gate = "defer"
                THEN IF fault
                     THEN EndCycle([base EXCEPT
                            !.last = me("raised", cost, "none")])
                     ELSE EndCycle([base EXCEPT
                            !.lanes = defer(p.lanes, stamps, task),
                            !.stamps = stamps + 1,
                            !.last = me("deferred", cost, "none")])
                ELSE IF gate = "block"
                THEN IF fault
                     THEN EndCycle([base EXCEPT
                            !.last = me("raised", cost, "none")])
                     ELSE EndCycle([base EXCEPT
                            !.logs = bus_log(logs, "LOG:INCIDENTS",
                                        [event |-> "code_blocked",
                                         task_id |-> task.task_id]),
                            !.last = me("blocked", cost, "none")])
                ELSE \E resp \in ExecResponses :
                     LET done == [base EXCEPT
                            !.lanes = lanes_after_dispatch(p.lanes, stamps,
                                                           task, resp),
                            !.dispatched = Append(dispatched, task.task_id),
                            !.budget = settle_budget(budget, cost, resp)]
                         event == IF execute_success(resp)
                                  THEN "task_completed" ELSE "task_failed"
                     IN  IF fault
                         THEN EndCycle([done EXCEPT
                                !.last = me("raised", cost, resp.status)])
                         ELSE EndCycle([done EXCEPT
                                !.logs = bus_log(logs, "LOG:TASKS",
                                            [event |-> event,
                                             task_id |-> task.task_id]),
                                !.last = me(event, cost, resp.status)])

\* asyncio.sleep(POLL_INTERVAL_SEC), then the loop tests _running again
Sleep ==
    /\ pc = "sleep"
    /\ pc' = "loop"
    /\ UNCHANGED <<lanes, stamps, produced, budget, running, cycle_count,
                   logs, dispatched, last, startup>>
    /\ UNCHANGED <<shiftVars, auxVars, sideVars>>

\* the loop finds _running false: the finally block of start
LoopExit ==
    /\ pc = "loop"
    /\ ~running
    /\ pc' = "done"
    /\ running' = FALSE
    /\ UNCHANGED <<lanes, stamps, produced, budget, cycle_count, logs,
                   dispatched, last, startup>>
    /\ UNCHANGED <<shiftVars, auxVars, sideVars>>

\* stop as a cancellation of the task that runs start: the loop is left at
\* once, wherever it is
Stop_cancels ==
    /\ running
    /\ running' = FALSE
    /\ pc' = "done"
    /\ UNCHANGED <<lanes, stamps, produced, budget, cycle_count, logs,
                   dispatched, last, startup>>
    /\ UNCHANGED <<shiftVars, auxVars, sideVars>>

\* Orchestrator.stop
Stop ==
    /\ running
    /\ running' = FALSE
    /\ UNCHANGED <<lanes, stamps, produced, budget, cycle_count, pc, logs,
                   dispatched, last, startup>>
    /\ UNCHANGED <<shiftVars, auxVars, sideVars>>

-----------------------------------------------------------------------------
(* worker/roles.py *)

WorkerRole == {"sysadmin", "auditor", "economist", "cleaner", "mchs"}

\* ROLE_REGISTRY[role]: the fields of RoleConfig the protocol can ask for;
\* a model name is the tuple of its parts, the tag last
get_role_config(role) ==
    [role           |-> role,
     ollama_model   |-> <<"genome-worker", role>>,
     priority_boost |-> (role = "mchs")]

\* whether reading conf.<name> returns (it raises AttributeError otherwise)
HasAttr(conf, name) == name \in DOMAIN conf

-----------------------------------------------------------------------------
(* core/shift_manager.py *)

\* f"{model_name}:latest"
Latest(model_name) == Append(model_name, "latest")

AllModels == { get_role_config(r).ollama_model : r \in WorkerRole }

\* answers of GET /api/tags
TagsAnswers ==
    { [kind |-> "response", status |-> "200", models |-> m] :
        m \in { {}, AllModels, {Latest(n) : n \in AllModels},
                {get_role_config("auditor").ollama_model} } }
    \cup { [kind |-> "response", status |-> "500", models |-> AllModels],
           [kind |-> "exception", status |-> "", models |-> {}] }

\* answers of POST /api/generate to the probe prompt
ProbeAnswers ==
    { [kind |-> "response", status |-> "200", text |-> t] :
        t \in { <<"o", "k", " ">>,
                <<" ", "r", "e", "a", "d", "y", " ", "n", "o", "w", " ">>,
                <<"d", "o", "c", "k", "e", "r", " ", "s", "t", "a", "t",
                  "s">> } }
    \cup { [kind |-> "response", status |-> "503", text |-> <<>>],
           [kind |-> "exception", status |-> "", text |-> <<>>] }

RECURSIVE LStrip(_)
LStrip(text) ==
    IF text # <<>> /\ Head(text) = " " THEN LStrip(Tail(text)) ELSE text

RECURSIVE RStrip(_)
RStrip(text) ==
    IF text # <<>> /\ text[Len(text)] = " "
    THEN RStrip(SubSeq(text, 1, Len(text) - 1))
    ELSE text

\* str.strip
Strip(text) == RStrip(LStrip(text))

MinReplyLen == 10

\* _validate_role: "True", "False", or "raise" with the exception
validate_role(role, tags) ==
    LET role_conf == get_role_config(role)
    IN  IF ~HasAttr(role_conf, "model_name")
        THEN [ret |-> "raise", error |-> "AttributeError"]
        ELSE IF tags.kind = "exception"
        THEN [ret |-> "raise", error |-> "ConnectError"]
        ELSE IF tags.status # "200" THEN [ret |-> "False", error |-> ""]
        ELSE IF \/ role_conf["model_name"] \in tags.models
                \/ Latest(role_conf["model_name"]) \in tags.models
             THEN [ret |-> "True", error |-> ""]
             ELSE [ret |-> "False", error |-> ""]

\* _test_role
test_role(role, probe) ==
    LET role_conf == get_role_config(role)
    IN  IF ~HasAttr(role_conf, "model_name")
        THEN [ret |-> "raise", error |-> "AttributeError"]
        ELSE IF probe.kind = "exception"
        THEN [ret |-> "raise", error |-> "ConnectError"]
        ELSE IF probe.status # "200" THEN [ret |-> "False", error |-> ""]
        ELSE IF Len(Strip(probe.text)) > MinReplyLen
             THEN [ret |-> "True", error |-> ""]
             ELSE [ret |-> "False", error |-> ""]

\* handoff_context or {}
ContextOrEmpty(ctx) == IF ctx \in {None, "{}"} THEN "{}" ELSE ctx

HandoffContexts == {None, "{}", "{pending: 2}"}

NoHandoff == [previous_role |-> None, context |-> None]

\* the role pointer moved before the stages have run
role_after_eager(current, to_name, status) == to_name

\* ShiftManager._current_role when execute_shift returns
role_after(current, to_name, status) ==
    IF status = "completed" THEN to_name ELSE current

\* the report execute_shift returns
shift_report(from_name, to_role, ctx, tags, probe) ==
    LET v == validate_role(to_role, tags)
        t == test_role(to_role, probe)
        pending == [from_role |-> from_name, to_role |-> to_role,
                    status |-> "pending", validation_ok |-> FALSE,
                    test_ok |-> FALSE, handoff_data |-> NoHandoff,
                    error |-> None]
        handed == [pending EXCEPT
                    !.validation_ok = TRUE,
                    !.handoff_data = [previous_role |-> from_name,
                                      context |-> ContextOrEmpty(ctx)]]
    IN  IF v.ret = "raise"
        THEN [pending EXCEPT !.status = "failed", !.error = v.error]
        ELSE IF v.ret = "False"
        THEN [pending EXCEPT !.status = "failed",
                             !.error = "model_not_ready"]
        ELSE IF t.ret = "raise"
        THEN [handed EXCEPT !.status = "failed",
                            !.error = <<"Test error", t.error>>]
        ELSE IF t.ret = "False"
        THEN [handed EXCEPT !.status = "failed",
                            !.error = "test_prompt_failed"]
        ELSE [handed EXCEPT !.status = "completed", !.test_ok = TRUE]

\* the statuses with the assignment of VALIDATING left out
status_trace_unstaged(to_role, tags, probe) ==
    LET v == validate_role(to_role, tags)
        t == test_role(to_role, probe)
    IN  IF v.ret # "True" THEN <<"pending", "failed">>
        ELSE IF t.ret # "True"
        THEN <<"pending", "handoff", "testing", "failed">>
        ELSE <<"pending", "handoff", "testing", "completed">>

\* the values report.status takes, in order, during one execute_shift call
status_trace(to_role, tags, probe) ==
    LET v == validate_role(to_role, tags)
        t == test_role(to_role, probe)
    IN  IF v.ret # "True" THEN <<"pending", "validating", "failed">>
        ELSE IF t.ret # "True"
        THEN <<"pending", "validating", "handoff", "testing", "failed">>
        ELSE <<"pending", "validating", "handoff", "testing", "completed">>

\* time.time() when the first execute_shift call starts, in seconds
ClockStart == 1730000000

\* report.started_at of the call made after n others: time.time() read when
\* the report is built
started_at(n) == ClockStart + 100 * n

\* seconds _validate_role takes: none when it raises before the request,
\* the client timeout when the request fails, else the time of an answer
validate_time(role, tags) ==
    IF validate_role(role, tags).error = "AttributeError" THEN 0
    ELSE IF tags.kind = "exception" THEN 10 ELSE 1

\* seconds _test_role takes
test_time(role, probe) ==
    IF test_role(role, probe).error = "AttributeError" THEN 0
    ELSE IF probe.kind = "exception" THEN 60 ELSE 2

\* seconds between the two readings of time.time() of one call
elapsed(to_role, tags, probe) ==
    validate_time(to_role, tags)
        + (IF validate_role(to_role, tags).ret = "True"
           THEN test_time(to_role, probe) ELSE 0)

\* the handler of the validation exception without its assignment of
\* completed_at, which keeps the default None (0)
completed_at_unset(started, to_role, tags, probe) ==
    IF validate_role(to_role, tags).ret = "raise" THEN 0
    ELSE started + elapsed(to_role, tags, probe)

\* report.completed_at when execute_shift returns: time.time() read on the
\* path that returns
completed_at(started, to_role, tags, probe) ==
    started + elapsed(to_role, tags, probe)

\* what a call leaves for inspection: its inputs, the role held before it,
\* the statuses the report took and the two timestamps of the report
shift_record(to_role, tags, probe, role_before, n) ==
    [to_role |-> to_role, tags |-> tags, probe |-> probe,
     role_before |-> role_before,
     trace |-> status_trace(to_role, tags, probe),
     started_at |-> started_at(n),
     completed_at |-> completed_at(started_at(n), to_role, tags, probe)]

\* ShiftManager.execute_shift
ExecuteShift ==
    /\ Len(shift_history) < MaxShifts
    /\ \E from_name \in {current_role, "sysadmin"}, to_role \in WorkerRole,
          ctx \in HandoffContexts, tags \in TagsAnswers,
          probe \in ProbeAnswers :
          LET report == shift_report(from_name, to_role, ctx, tags, probe)
          IN  /\ shift_history' = Append(shift_history, report)
              /\ current_role' = role_after(current_role, to_role,
                                            report.status)
              /\ shift_env' = shift_record(to_role, tags, probe, current_role,
                                           Len(shift_history))
    /\ UNCHANGED <<orchVars, auxVars, sideVars>>

\* the members of WorkerRole in the order the enum declares them
RoleOrder == <<"sysadmin", "auditor", "economist", "cleaner", "mchs">>

\* ShiftManager.execute_shift called by a console that walks through the
\* roles in order, from the role the manager reports as current
RotateShift ==
    /\ Len(shift_history) < MaxHistoryShifts
    /\ \E tags \in TagsAnswers, probe \in ProbeAnswers :
          LET to_role == RoleOrder[(Len(shift_history) % Len(RoleOrder)) + 1]
              report  == shift_report(current_role, to_role, None, tags,
                                      probe)
          IN  /\ shift_history' = Append(shift_history, report)
              /\ current_role' = role_after(current_role, to_role,
                                            report.status)
              /\ shift_env' = shift_record(to_role, tags, probe, current_role,
                                           Len(shift_history))
    /\ UNCHANGED <<orchVars, auxVars, sideVars>>

\* whether _validate_role and _test_role, awaited from execute_shift, end
\* before their request, so that the caller is not suspended by them
ends_before_request(role) ==
    ~HasAttr(get_role_config(role), "model_name")

\* the inflight calls without the one at position c
WithoutCall(calls, c) ==
    SubSeq(calls, 1, c - 1) \o SubSeq(calls, c + 1, Len(calls))

\* ShiftManager.execute_shift on an event loop that may run several calls:
\* one step runs a call from its start (c = 0), or a suspended call from the
\* answer it awaited, to its next request or to its return.  tags and probe
\* are the answers the runtime has for the call
ShiftStep ==
    \E c \in 0..Len(inflight) :
        IF c = 0
        THEN /\ Len(shift_history) + Len(inflight) < MaxShifts
             /\ \E from_name \in {current_role, "sysadmin"},
                   to_role \in WorkerRole, ctx \in HandoffContexts,
                   tags \in TagsAnswers, probe \in ProbeAnswers :
                   LET n == Len(shift_history) + Len(inflight)
                       report == shift_report(from_name, to_role, ctx, tags,
                                              probe)
                   IN  IF ends_before_request(to_role)
                       THEN /\ shift_history' = Append(shift_history, report)
                            /\ current_role' = role_after(current_role,
                                                          to_role,
                                                          report.status)
                            /\ shift_env' = shift_record(to_role, tags, probe,
                                                         current_role, n)
                            /\ UNCHANGED inflight
                       ELSE /\ inflight' = Append(inflight,
                                   [from_name |-> from_name,
                                    to_role |-> to_role, ctx |-> ctx,
                                    tags |-> tags, probe |-> probe, n |-> n,
                                    at |-> "validating"])
                            /\ UNCHANGED shiftVars
             /\ UNCHANGED <<orchVars, auxVars, jobs, checked,
                            consecutive_critical, watch, registry>>
        ELSE /\ LET r == inflight[c]
                    report == shift_report(r.from_name, r.to_role, r.ctx,
                                           r.tags, r.probe)
                IN  IF /\ r.at = "validating"
                       /\ validate_role(r.to_role, r.tags).ret = "True"
                    THEN /\ inflight' = [inflight EXCEPT ![c].at = "testing"]
                         /\ UNCHANGED shiftVars
                    ELSE /\ shift_history' = Append(shift_history, report)
                         /\ current_role' = role_after(current_role,
                                                       r.to_role,
                                                       report.status)
                         /\ shift_env' = shift_record(r.to_role, r.tags,
                                                      r.probe, current_role,
                                                      r.n)
                         /\ inflight' = WithoutCall(inflight, c)
             /\ UNCHANGED <<orchVars, auxVars, jobs, checked,
                            consecutive_critical, watch, registry>>

\* ShiftReport.to_dict, without the duration
to_dict(report) ==
    [from_role     |-> report.from_role,
     to_role       |-> report.to_role,
     status        |-> report.status,
     validation_ok |-> report.validation_ok,
     test_ok       |-> report.test_ok,
     error         |-> report.error]

HistoryLimit == 20

\* the history property without the slice
history_untrimmed(h) == [i \in 1..Len(h) |-> to_dict(h[i])]

\* ShiftManager.history: [s.to_dict() for s in self._shift_history[-20:]]
history(h) ==
    LET first == IF Len(h) > HistoryLimit THEN Len(h) - HistoryLimit + 1
                 ELSE 1
    IN  [i \in 1..(Len(h) - first + 1) |-> to_dict(h[first + i - 1])]

-----------------------------------------------------------------------------
(* core/orchestrator.py: _select_role.  A task type is the tuple of its    *)
(* characters.                                                             *)

UpperCase ==
    <<"A", "B", "C", "D", "E", "F", "G", "H", "I", "J", "K", "L", "M",
      "N", "O", "P", "Q", "R", "S", "T", "U", "V", "W", "X", "Y", "Z">>

LowerCase ==
    <<"a", "b", "c", "d", "e", "f", "g", "h", "i", "j", "k", "l", "m",
      "n", "o", "p", "q", "r", "s", "t", "u", "v", "w", "x", "y", "z">>

LowerChar(c) ==
    IF \E i \in 1..Len(UpperCase) : UpperCase[i] = c
    THEN LowerCase[CHOOSE i \in 1..Len(UpperCase) : UpperCase[i] = c]
    ELSE c

\* str.lower
Lower(text) == [i \in 1..Len(text) |-> LowerChar(text[i])]

\* kw in t
IsSubstring(kw, t) ==
    \E i \in 0..(Len(t) - Len(kw)) : SubSeq(t, i + 1, i + Len(kw)) = kw

\* mapping, in the order the dict literal lists its items
mapping ==
    << [kw |-> <<"s", "y", "s", "a", "d", "m", "i", "n">>,
        role |-> "sysadmin"],
       [kw |-> <<"d", "o", "c", "k", "e", "r">>,
        role |-> "sysadmin"],
       [kw |-> <<"s", "y", "s", "t", "e", "m">>,
        role |-> "sysadmin"],
       [kw |-> <<"a", "u", "d", "i", "t">>,
        role |-> "auditor"],
       [kw |-> <<"s", "e", "c", "u", "r", "i", "t", "y">>,
        role |-> "auditor"],
       [kw |-> <<"r", "e", "v", "i", "e", "w">>,
        role |-> "auditor"],
       [kw |-> <<"e", "c", "o", "n", "o", "m", "y">>,
        role |-> "economist"],
       [kw |-> <<"c", "o", "s", "t">>,
        role |-> "economist"],
       [kw |-> <<"c", "l", "e", "a", "n">>,
        role |-> "cleaner"],
       [kw |-> <<"g", "a", "r", "b", "a", "g", "e">>,
        role |-> "cleaner"],
       [kw |-> <<"e", "m", "e", "r", "g", "e", "n", "c", "y">>,
        role |-> "mchs"],
       [kw |-> <<"m", "c", "h", "s">>,
        role |-> "mchs"] >>

\* the items of mapping whose keyword is in the lower-cased type
KeywordHits(task_type) ==
    { k \in 1..Len(mapping) :
        IsSubstring(mapping[k].kw, Lower(task_type)) }

\* _select_role with the loop keeping the last hit instead of returning
select_role_last_hit(task_type) ==
    LET hits == KeywordHits(task_type)
    IN  IF hits = {} THEN "sysadmin"
        ELSE mapping[CHOOSE k \in hits : \A j \in hits : j <= k].role

\* _select_role
select_role(task_type) ==
    LET hits == KeywordHits(task_type)
    IN  IF hits = {} THEN "sysadmin"
        ELSE mapping[CHOOSE k \in hits : \A j \in hits : k <= j].role

\* task types the producers submit
TaskTypes ==
    { <<"s", "y", "s", "a", "d", "m", "i", "n">>,
      <<"a", "u", "d", "i", "t", "o", "r">>,
      <<"e", "c", "o", "n", "o", "m", "i", "s", "t">>,
      <<"c", "l", "e", "a", "n", "e", "r">>,
      <<"m", "c", "h", "s">>,
      <<"s", "y", "s", "t", "e", "m", "_", "c", "l", "e", "a", "n", "u", "p">>,
      <<"S", "e", "c", "u", "r", "i", "t", "y", "_", "R", "e", "v", "i", "e",
        "w">>,
      <<"c", "o", "s", "t", "_", "a", "u", "d", "i", "t">>,
      <<"g", "a", "r", "b", "a", "g", "e", " ", "e", "m", "e", "r", "g", "e",
        "n", "c", "y">>,
      <<"d", "e", "p", "l", "o", "y">>,
      <<>>,
      <<"D", "O", "C", "K", "E", "R">>,
      <<"c", "o", "d", "e", "_", "a", "n", "a", "l", "y", "s", "i", "s">>,
      <<"M", "C", "H", "S", "_", "c", "l", "e", "a", "n">>,
      <<"e", "c", "o">>,
      <<"r", "e", "v", "i", "e", "w", "s">> }

-----------------------------------------------------------------------------
(* core/unit_economy.py.  RAM is counted in tenths of a GB, coefficients   *)
(* in tenths, the safety margin in hundredths, a cost in thousandths of a  *)
(* Unit.                                                                   *)

CPU_COEFF == 5
RAM_COEFF == 10
TIME_COEFF == 1
BUDGET_SAFETY_MARGIN == 85

\* calculate_units with the CPU term subtracted
calculate_units_minus(ram_gb, cpu_pct, time_sec) ==
    (ram_gb * RAM_COEFF * time_sec * TIME_COEFF) - (cpu_pct * CPU_COEFF) * 100

\* calculate_units
calculate_units(ram_gb, cpu_pct, time_sec) ==
    (ram_gb * RAM_COEFF * time_sec * TIME_COEFF) + (cpu_pct * CPU_COEFF) * 100

Profile(ram_gb, cpu_pct, time_sec) ==
    [given |-> TRUE, ram_gb |-> ram_gb, cpu_pct |-> cpu_pct,
     time_sec |-> time_sec]

\* custom_profile=None
NoProfile == [given |-> FALSE, ram_gb |-> 0, cpu_pct |-> 0, time_sec |-> 0]

ProfileNames ==
    {"llm_inference_1.5b", "llm_inference_8b", "code_analysis",
     "docker_operation", "cleanup", "default"}

\* TASK_PROFILES.get(task_type, TASK_PROFILES["default"])
TASK_PROFILES(task_type) ==
    CASE task_type = "llm_inference_1.5b" -> Profile(15, 60, 15)
      [] task_type = "llm_inference_8b"   -> Profile(50, 90, 60)
      [] task_type = "code_analysis"      -> Profile(5, 30, 10)
      [] task_type = "docker_operation"   -> Profile(3, 20, 5)
      [] task_type = "cleanup"            -> Profile(1, 10, 3)
      [] OTHER                            -> Profile(10, 40, 30)

\* ram_gb > safe_ram, safe_ram = ram_available_mb / 1024 * margin
ram_exceeds(ram_gb, snapshot) ==
    ram_gb * 1024 * 10 > snapshot.ram_available_mb * BUDGET_SAFETY_MARGIN

\* the CPU test with the headroom of an idle processor
cpu_exceeds_idle(cpu_pct, snapshot) ==
    cpu_pct * 100 > 100 * BUDGET_SAFETY_MARGIN

\* cpu_pct > safe_cpu, safe_cpu = (100 - cpu_percent) * margin
cpu_exceeds(cpu_pct, snapshot) ==
    cpu_pct * 100 > (100 - snapshot.cpu_percent) * BUDGET_SAFETY_MARGIN

\* estimate_task_cost; a reason is the tuple of its parts, the tag first
estimate_task_cost(task_type, snapshot, custom_profile) ==
    LET profile == IF custom_profile.given THEN custom_profile
                   ELSE TASK_PROFILES(task_type)
        cost == [ram_gb      |-> profile.ram_gb,
                 cpu_percent |-> profile.cpu_pct,
                 time_sec    |-> profile.time_sec,
                 total_units |-> calculate_units(profile.ram_gb,
                                    profile.cpu_pct, profile.time_sec),
                 feasible    |-> TRUE,
                 reason      |-> <<>>]
    IN  IF ram_exceeds(profile.ram_gb, snapshot)
        THEN [cost EXCEPT !.feasible = FALSE,
                          !.reason = <<"INSUFFICIENT_FUNDS", "RAM">>]
        ELSE IF cpu_exceeds(profile.cpu_pct, snapshot)
        THEN [cost EXCEPT !.feasible = FALSE,
                          !.reason = <<"INSUFFICIENT_FUNDS", "CPU">>]
        ELSE IF is_critical(snapshot)
        THEN [cost EXCEPT !.feasible = FALSE,
                          !.reason = <<"SYSTEM_CRITICAL">>]
        ELSE cost

\* amounts of RAM (tenths of a GB), CPU (percent) and time (seconds)
RamAmounts == {0, 1, 3, 5, 10, 15, 50}
CpuAmounts == {0, 10, 20, 30, 40, 60, 90}
TimeAmounts == {0, 3, 5, 10, 15, 30, 60}

\* readings of take_snapshot with the fields the feasibility test reads
EconomySnapshots ==
    { [ram_percent |-> 50, has_temp |-> TRUE, cpu_temp_celsius |-> 60,
       ram_available_mb |-> 8192, cpu_percent |-> 20],
      [ram_percent |-> 85, has_temp |-> TRUE, cpu_temp_celsius |-> 60,
       ram_available_mb |-> 1200, cpu_percent |-> 20],
      [ram_percent |-> 95, has_temp |-> FALSE, cpu_temp_celsius |-> 0,
       ram_available_mb |-> 400, cpu_percent |-> 20],
      [ram_percent |-> 95, has_temp |-> FALSE, cpu_temp_celsius |-> 0,
       ram_available_mb |-> 6554, cpu_percent |-> 5],
      [ram_percent |-> 50, has_temp |-> TRUE, cpu_temp_celsius |-> 90,
       ram_available_mb |-> 8192, cpu_percent |-> 95],
      [ram_percent |-> 50, has_temp |-> TRUE, cpu_temp_celsius |-> 90,
       ram_available_mb |-> 8192, cpu_percent |-> 5],
      [ram_percent |-> 40, has_temp |-> TRUE, cpu_temp_celsius |-> 60,
       ram_available_mb |-> 10240, cpu_percent |-> 20] }

\* no profile, and profiles at and just above 85 % of 10 GB and of 80 % CPU
CustomProfiles ==
    { NoProfile, Profile(0, 0, 0), Profile(80, 95, 1), Profile(85, 68, 1),
      Profile(86, 68, 1), Profile(85, 69, 1) }

-----------------------------------------------------------------------------
(* core/redis_bus.py: the wire form of a Task.  A Python value is the pair *)
(* of its type and its content, a JSON text the pair of the kind of its    *)
(* outermost token and its content; a float is counted in tenths.          *)

PyStr(s) == <<"str", s>>
PyInt(n) == <<"int", n>>
PyFloat(n) == <<"float", n>>
PyBool(b) == <<"bool", b>>
PyNone == <<"none", None>>
PyList(items) == <<"list", items>>
\* a dict: its items, in insertion order
PyDict(items) == <<"dict", items>>

Item(key, value) == <<key, value>>

RECURSIVE json_dumps(_)
\* json.dumps(value, ensure_ascii=False)
json_dumps(x) ==
    CASE x[1] = "str"   -> <<"string", x[2]>>
      [] x[1] = "int"   -> <<"integer", x[2]>>
      [] x[1] = "float" -> <<"fraction", x[2]>>
      [] x[1] = "bool"  -> <<"literal", IF x[2] THEN "true" ELSE "false">>
      [] x[1] = "none"  -> <<"literal", "null">>
      [] x[1] = "list"  ->
            <<"array", [i \in 1..Len(x[2]) |-> json_dumps(x[2][i])]>>
      [] x[1] = "dict"  ->
            <<"object", [i \in 1..Len(x[2]) |->
                           Item(x[2][i][1], json_dumps(x[2][i][2]))]>>

RECURSIVE json_loads(_)
\* json.loads(text)
json_loads(j) ==
    CASE j[1] = "string"   -> PyStr(j[2])
      [] j[1] = "integer"  -> PyInt(j[2])
      [] j[1] = "fraction" -> PyFloat(j[2])
      [] j[1] = "literal"  -> IF j[2] = "null" THEN PyNone
                              ELSE PyBool(j[2] = "true")
      [] j[1] = "array"    ->
            PyList([i \in 1..Len(j[2]) |-> json_loads(j[2][i])])
      [] j[1] = "object"   ->
            PyDict([i \in 1..Len(j[2]) |->
                      Item(j[2][i][1], json_loads(j[2][i][2]))])

\* the fields of the dataclass Task, in declaration order
TaskFields ==
    <<"task_id", "task_type", "payload", "priority", "source", "created_at",
      "estimated_units">>

\* dataclasses.asdict(task)
asdict(task) ==
    PyDict([i \in 1..Len(TaskFields) |->
              Item(TaskFields[i], task[TaskFields[i]])])

\* Task.to_json
to_json(task) == json_dumps(asdict(task))

\* d[key]
DictGet(d, key) ==
    d[2][CHOOSE i \in 1..Len(d[2]) : d[2][i][1] = key][2]

\* Task.from_json that passes the first three fields only: the others take
\* the defaults of the dataclass
from_json_defaults(wire) ==
    LET d == json_loads(wire)
    IN  [task_id         |-> DictGet(d, "task_id"),
         task_type       |-> DictGet(d, "task_type"),
         payload         |-> DictGet(d, "payload"),
         priority        |-> PyStr("export"),
         source          |-> PyStr("unknown"),
         created_at      |-> DictGet(d, "created_at"),
         estimated_units |-> PyFloat(0)]

\* Task.from_json: cls(**json.loads(data))
from_json(wire) ==
    LET d == json_loads(wire)
    IN  [f \in {TaskFields[i] : i \in 1..Len(TaskFields)} |-> DictGet(d, f)]

\* payloads the producers build: parsed JSON (genome_cli, dashboard) and the
\* dict literals of the scheduler with the snapshot added
Payloads ==
    { PyDict(<<>>),
      PyDict(<<Item("action", PyStr("health_check")),
               Item("auto", PyBool(TRUE))>>),
      PyDict(<<Item("targets", PyList(<<PyStr("old_logs"),
                                        PyStr("temp_files")>>)),
               Item("max_age_hours", PyInt(24))>>),
      PyDict(<<Item("code", PyStr("import os")),
               Item("timeout", PyNone)>>),
      PyDict(<<Item("system_state",
                    PyDict(<<Item("cpu_percent", PyFloat(125)),
                             Item("cpu_temp_celsius", PyNone),
                             Item("is_critical", PyBool(FALSE))>>))>>),
      PyDict(<<Item("max_age_hours", PyFloat(240)),
               Item("auto", PyInt(1))>>) }

\* Task objects the producers build
Tasks ==
    { [task_id         |-> PyStr("a1b2c3d4"),
       task_type       |-> PyStr(type),
       payload         |-> payload,
       priority        |-> PyStr(priority),
       source          |-> PyStr(source),
       created_at      |-> PyFloat(1730000001),
       estimated_units |-> PyFloat(units)] :
        type \in {"sysadmin", "security_review"},
        payload \in Payloads,
        priority \in {"critical", "export", "internal", "urgent"},
        source \in {"cli", "scheduler"},
        units \in {0, 25} }

-----------------------------------------------------------------------------
(* worker/executor.py: execute, switch_role and list_models.  An error     *)
(* text is the tuple of its parts, the fixed part first.                   *)

\* what GET /api/tags answers: list_models returns the names of a 200
\* answer and the empty list otherwise
list_models(tags) ==
    IF tags.kind = "response" /\ tags.status = "200" THEN tags.models ELSE {}

\* switch_role that keeps the role held when the model is not listed
switch_role_if_listed(current, role, tags) ==
    IF role \notin WorkerRole
    THEN [ok |-> FALSE, current_role |-> current, listed |-> FALSE]
    ELSE IF get_role_config(role).ollama_model \in list_models(tags)
    THEN [ok |-> TRUE, current_role |-> role, listed |-> TRUE]
    ELSE [ok |-> FALSE, current_role |-> current, listed |-> FALSE]

\* switch_role: the role is set whether or not its model is listed
switch_role(current, role, tags) ==
    IF role \notin WorkerRole
    THEN [ok |-> FALSE, current_role |-> current, listed |-> FALSE]
    ELSE [ok |-> TRUE, current_role |-> role,
          listed |-> get_role_config(role).ollama_model \in list_models(tags)]

ExecutionResult(role, success, output, error) ==
    [raised |-> FALSE, role |-> role, success |-> success,
     output |-> output, error |-> error]

\* the call ends with an exception instead of a result
Raised(exception) ==
    [raised |-> TRUE, role |-> None, success |-> FALSE, output |-> "",
     error |-> <<exception>>]

\* what POST /api/generate can do: answer with a JSON object, answer with
\* a body that is not one, run into the timeout of 300 s, or fail in the
\* transport; message is the body or the text of the exception
GenerateAnswers ==
    { [kind |-> "response", status |-> "200", message |-> "done"],
      [kind |-> "response", status |-> "404", message |-> "model not found"],
      [kind |-> "response", status |-> "500", message |-> "internal error"],
      [kind |-> "malformed", status |-> "200", message |-> "<html>"],
      [kind |-> "malformed", status |-> "500", message |-> "<html>"],
      [kind |-> "timeout", status |-> "", message |-> ""],
      [kind |-> "exception", status |-> "",
       message |-> "All connection attempts failed"],
      [kind |-> "exception", status |-> "", message |-> ""] }

\* execute without the handler of Exception: the exception leaves the call
on_exception_propagates(role, message) == Raised(message)

\* the handler of Exception in execute
on_exception(role, message) ==
    ExecutionResult(role, FALSE, "", <<"str", message>>)

\* the try block of execute and its handlers
generate(role, resp) ==
    CASE resp.kind = "timeout" ->
            ExecutionResult(role, FALSE, "", <<"timeout", 300>>)
      [] resp.kind = "exception" -> on_exception(role, resp.message)
      [] resp.status # "200" ->
            ExecutionResult(role, FALSE, "",
                            <<"Ollama HTTP", resp.status, resp.message>>)
      [] resp.kind = "malformed" -> on_exception(role, "JSONDecodeError")
      [] OTHER -> ExecutionResult(role, TRUE, resp.message, <<>>)

\* WorkerExecutor.execute for the role passed, the role the executor holds,
\* and the answers of the endpoint: the result, the role held afterwards and
\* the requests the call sent to the endpoint, in order
execute(role, current, tags, resp) ==
    LET effective_role == IF role # None THEN role ELSE current
    IN  IF effective_role = None
        THEN [result |-> ExecutionResult("none", FALSE, "", <<"no role">>),
              current_role |-> current, requests |-> <<>>]
        ELSE IF effective_role \notin WorkerRole
        THEN [result |-> Raised("KeyError"), current_role |-> current,
              requests |-> <<>>]
        ELSE [result |-> generate(effective_role, resp),
              current_role |->
                  IF effective_role # current
                  THEN switch_role(current, effective_role, tags).current_role
                  ELSE current,
              requests |->
                  IF effective_role # current
                  THEN <<"/api/tags", "/api/generate">>
                  ELSE <<"/api/generate">>]

\* the roles a caller passes: a member of WorkerRole, none, or a value that
\* has no entry in ROLE_REGISTRY
RolesPassed == WorkerRole \cup {None, "planner"}

-----------------------------------------------------------------------------
(* core/redis_bus.py: log and read_log on one stream of the store *)

\* maxlen of the XADD that log sends
MAXLEN == 10000

\* entries in one node of a stream (stream-node-max-entries of the store)
NodeEntries == 100

\* entries a stream holds when the bus connects to a store that was in use
StoredAtStart == 9900

StreamLen(s) == IF s.last = 0 THEN 0 ELSE s.last - s.first + 1

\* XADD without trimming
xtrim_never(s) == s

\* the trimming of XADD key MAXLEN ~ 10000, which xadd(..., maxlen=10000)
\* sends: the oldest node is evicted, whole, while the stream keeps at least
\* MAXLEN entries without it
xtrim(s) ==
    IF StreamLen(s) - NodeEntries >= MAXLEN
    THEN [s EXCEPT !.first = @ + NodeEntries]
    ELSE s

\* XADD key MAXLEN ~ 10000 * field value ...: the entry gets the next id,
\* the stream is trimmed, the id is returned
xadd(s) ==
    xtrim([s EXCEPT !.first = IF s.last = 0 THEN 1 ELSE @,
                    !.last = @ + 1,
                    !.returned = s.last + 1])

\* XRANGE key min + COUNT count: the ids of the oldest and the newest entry
\* returned, of at most count entries whose id is at least min (0: none)
xrange(s, min, count) ==
    LET lo == IF min > s.first THEN min ELSE s.first
        hi == IF lo + count - 1 < s.last THEN lo + count - 1 ELSE s.last
    IN  IF s.last = 0 \/ lo > s.last
        THEN [called |-> TRUE, cursor |-> min, lo |-> 0, hi |-> 0]
        ELSE [called |-> TRUE, cursor |-> min, lo |-> lo, hi |-> hi]

\* the streams the bus can find when it connects: an empty one, or one that
\* earlier runs wrote, with a cursor a reader kept from then
StreamsAtStart ==
    { NoStream,
      [NoStream EXCEPT !.first = 1, !.last = StoredAtStart,
                       !.returned = StoredAtStart, !.mark = 50] }

InitLog == Constructed /\ call = NoCall /\ xstream \in StreamsAtStart

\* RedisBus.log
Log ==
    /\ xstream.calls < MaxLogCalls
    /\ xstream' = [xadd(xstream) EXCEPT
                     !.calls = @ + 1,
                     !.mark = IF @ = 0 THEN xstream.last + 1 ELSE @,
                     !.read = NoRead]
    /\ UNCHANGED <<orchVars, shiftVars, call, popped, sideVars>>

\* RedisBus.read_log with the default cursor "0", with the id the last log
\* call returned, or with the id kept from an earlier log call
ReadLog ==
    /\ ~xstream.read.called
    /\ \E last_id \in {0, xstream.returned, xstream.mark},
          count \in {10, 20} :
          xstream' = [xstream EXCEPT !.read = xrange(xstream, last_id, count)]
    /\ UNCHANGED <<orchVars, shiftVars, call, popped, sideVars>>

-----------------------------------------------------------------------------
(* Calls of the functions that keep no state: the argument is drawn when   *)
(* the call is made, the result is recorded when it returns                *)

\* the reply texts of the cycle and further texts with and without numbers
CallReplyTexts ==
    ReplyTexts \cup
    { <<"-", "7">>,
      <<"c", "o", "s", "t", ":", " ", "1", "2", ".", "5", " ", "u">>,
      <<".", "5">>,
      <<"3", ".", "1", "4">>,
      <<"1", ",", " ", "2">>,
      <<"4", "2", ".">>,
      <<"a", "b", "c">>,
      <<"0">>,
      <<"7", " ", "t", "o", " ", "9">> }

\* what the inference endpoint can answer to the cost request: a body with
\* a reply text, a body that is not a JSON object, a timeout or a transport
\* error
CallReplies ==
    { [kind |-> "response", status |-> s, text |-> t] :
        s \in {"200", "404", "500"}, t \in CallReplyTexts }
    \cup { [kind |-> "malformed", status |-> s, text |-> <<"7">>] :
             s \in {"200", "500"} }
    \cup { [kind |-> "exception", status |-> e, text |-> <<"7">>] :
             e \in {"ReadTimeout", "ConnectError"} }

Call(fn, arg) ==
    [fn |-> fn, arg |-> arg, wire |-> None, out |-> None, done |-> FALSE]

\* the calls that can be made
InitCalls ==
    /\ Constructed
    /\ xstream = NoStream
    /\ \/ call \in { Call("calculate_units",
                          [ram_gb |-> r, cpu_pct |-> c, time_sec |-> t]) :
                       r \in RamAmounts, c \in CpuAmounts, t \in TimeAmounts }
       \/ call \in { Call("estimate_task_cost",
                          [task_type |-> n, snapshot |-> s,
                           custom_profile |-> p]) :
                       n \in ProfileNames \cup {"report"},
                       s \in EconomySnapshots, p \in CustomProfiles }
       \/ call \in { Call("_select_role", t) : t \in TaskTypes }
       \/ call \in { Call("_estimate_cost", r) : r \in CallReplies }
       \/ call \in { Call("to_json", t) : t \in Tasks }
       \/ call \in { Call("execute",
                          [role |-> r, current_role |-> c, tags |-> t,
                           resp |-> g]) :
                       r \in RolesPassed, c \in {None, "sysadmin"},
                       t \in TagsAnswers, g \in GenerateAnswers }

Returns(fn, out) ==
    /\ call.fn = fn
    /\ ~call.done
    /\ call' = [call EXCEPT !.out = out, !.done = TRUE]
    /\ UNCHANGED <<orchVars, shiftVars, xstream, popped, sideVars>>

CalculateUnits ==
    Returns("calculate_units",
            calculate_units(call.arg.ram_gb, call.arg.cpu_pct,
                            call.arg.time_sec))

EstimateTaskCost ==
    Returns("estimate_task_cost",
            estimate_task_cost(call.arg.task_type, call.arg.snapshot,
                               call.arg.custom_profile))

SelectRole == Returns("_select_role", select_role(call.arg))

EstimateCost == Returns("_estimate_cost", estimate_cost(call.arg))

\* push_task serializes the task: the JSON text is what the list holds
ToJson ==
    /\ call.fn = "to_json"
    /\ ~call.done
    /\ call' = [call EXCEPT !.wire = to_json(call.arg), !.done = TRUE]
    /\ UNCHANGED <<orchVars, shiftVars, xstream, popped, sideVars>>

\* pop_task parses the JSON text it took from the list
FromJson ==
    /\ call.fn = "to_json"
    /\ call.done
    /\ call' = [call EXCEPT !.fn = "from_json", !.out = from_json(call.wire)]
    /\ UNCHANGED <<orchVars, shiftVars, xstream, popped, sideVars>>

Execute ==
    Returns("execute",
            execute(call.arg.role, call.arg.current_role, call.arg.tags,
                    call.arg.resp))

-----------------------------------------------------------------------------
(* core/redis_bus.py: push_task and pop_task called on the bus directly *)

\* tasks the callers of the bus hold; each may be pushed more than once
BusTasks ==
    { [task_id |-> 1, priority |-> "critical", payload |-> NoCode],
      [task_id |-> 2, priority |-> "export", payload |-> NoCode],
      [task_id |-> 3, priority |-> "urgent", payload |-> NoCode] }

\* the priority argument of push_task: left out, or a lane
PrioritiesPassed == {None, "QUEUE:CRITICAL", "QUEUE:INTERNAL"}

\* RedisBus.push_task(task, priority)
BusPush ==
    /\ stamps < MaxBusPushes
    /\ \E task \in BusTasks, priority \in PrioritiesPassed :
          /\ lanes' = push_task(lanes, stamps, task, priority)
          /\ call' = [Call("push_task", [task |-> task, priority |-> priority])
                        EXCEPT !.done = TRUE]
    /\ stamps' = stamps + 1
    /\ UNCHANGED <<budget, running, cycle_count, pc, logs, dispatched, last,
                   produced, startup, shiftVars, xstream, popped, sideVars>>

\* RedisBus.pop_task() that returns a task
BusPop ==
    /\ BRPopKey(lanes) # 0
    /\ LET p == pop_task(lanes)
       IN  /\ lanes' = p.lanes
           /\ popped' = Append(popped, p.entry.task.task_id)
           /\ call' = [Call("pop_task", [lane |-> p.lane])
                         EXCEPT !.out = p.entry.task, !.done = TRUE]
    /\ UNCHANGED <<stamps, budget, running, cycle_count, pc, logs, dispatched,
                   last, produced, startup, shiftVars, xstream, sideVars>>

-----------------------------------------------------------------------------
(* scheduler.py: Scheduler._check_jobs and _submit_job *)

\* seconds from one reading of the clock by _check_jobs to the next: the
\* sleep of the loop, and the longer gaps of a process that was held up
Waits == {10, 290, 3600}

JobNames == { JOBS[i].name : i \in 1..Len(JOBS) }

\* the jobs whose push_task raises during one _check_jobs call: none, one
\* while the connection was lost, or all while the store is down
Outages == { {}, {"security_scan"}, JobNames }

\* elapsed >= job.interval_sec for an enabled job
is_due(job, now) ==
    job.enabled /\ now - job.last_run >= job.interval_sec

\* the Task _submit_job builds; its id holds the name and the clock
scheduler_task(job, now) ==
    [task_id |-> <<"auto", job.name, now>>, task_type |-> job.task_type,
     priority |-> job.priority, source |-> "scheduler",
     run_number |-> job.run_count + 1]

\* the counters advanced only when the bus took the task
after_submit_if_pushed(job, now, pushed_ok) ==
    IF pushed_ok
    THEN [job EXCEPT !.last_run = now, !.run_count = @ + 1]
    ELSE job

\* the job after _submit_job returned: _submit_job catches what push_task
\* raises, and the two assignments follow it
after_submit(job, now, pushed_ok) ==
    [job EXCEPT !.last_run = now, !.run_count = @ + 1]

\* the loop of _check_jobs from the job at position i on.  st holds the job
\* table, the lists and the serial number of the store, the names _submit_job
\* was called with and the ids of the tasks the bus took
RECURSIVE check_from(_, _, _, _)
check_from(i, st, now, failing) ==
    IF i > Len(st.jobs) THEN st
    ELSE IF ~is_due(st.jobs[i], now) THEN check_from(i + 1, st, now, failing)
    ELSE LET job  == st.jobs[i]
             ok   == job.name \notin failing
             task == scheduler_task(job, now)
         IN  check_from(i + 1,
                 [jobs |-> [st.jobs EXCEPT ![i] = after_submit(job, now, ok)],
                  lanes |-> IF ok
                            THEN push_task(st.lanes, st.stamps, task, None)
                            ELSE st.lanes,
                  stamps |-> IF ok THEN st.stamps + 1 ELSE st.stamps,
                  submit_calls |-> Append(st.submit_calls, job.name),
                  pushed |-> IF ok THEN Append(st.pushed, task.task_id)
                                   ELSE st.pushed],
                 now, failing)

\* _check_jobs: nothing is done while the snapshot is critical
check_jobs(js, ls, n, now, snapshot, failing) ==
    LET st == [jobs |-> js, lanes |-> ls, stamps |-> n,
               submit_calls |-> <<>>, pushed |-> <<>>]
    IN  IF is_critical(snapshot) THEN st
        ELSE check_from(1, st, now, failing)

\* one pass of the loop of Scheduler.start: a _check_jobs call
CheckJobs ==
    /\ checked.calls < MaxChecks
    /\ \E wait \in Waits, snapshot \in Snapshots, failing \in Outages :
          LET now == (IF checked.calls = 0 THEN ClockStart ELSE checked.now)
                        + wait
              c   == check_jobs(jobs, lanes, stamps, now, snapshot, failing)
          IN  /\ jobs' = c.jobs
              /\ lanes' = c.lanes
              /\ stamps' = c.stamps
              /\ checked' = [now |-> now, critical |-> is_critical(snapshot),
                             due |-> { jobs[i].name : i \in
                                         { j \in 1..Len(jobs) :
                                             is_due(jobs[j], now) } },
                             submit_calls |-> c.submit_calls,
                             pushed |-> c.pushed,
                             calls |-> checked.calls + 1]
    /\ UNCHANGED <<budget, running, cycle_count, pc, logs, dispatched, last,
                   produced, startup, shiftVars, auxVars, inflight,
                   consecutive_critical, watch, registry>>

-----------------------------------------------------------------------------
(* security/watchdog.py *)

CPU_TEMP_CRITICAL == 85
RAM_CRITICAL_PCT == 90

PROTECTED_CONTAINERS == {"genome-redis", "genome-chromadb"}

\* what one pass reads: get_cpu_temp() (has_temp: it is not None) and
\* psutil.virtual_memory().percent
WatchReadings ==
    { [has_temp |-> h, cpu_temp |-> t, ram_percent |-> r] :
        h \in BOOLEAN, t \in {60, 85, 86}, r \in {50, 90, 91} }

\* what docker ps lists under the name filter genome-
ContainerLists ==
    { {},
      {"genome-redis", "genome-chromadb"},
      {"genome-orchestrator"},
      {"genome-redis", "genome-chromadb", "genome-orchestrator",
       "genome-dashboard"} }

\* the branch of the loop a reading takes: "cpu", "ram", or "none" when both
\* values are in range
reading_class(reading) ==
    IF reading.has_temp /\ reading.cpu_temp > CPU_TEMP_CRITICAL THEN "cpu"
    ELSE IF reading.ram_percent > RAM_CRITICAL_PCT THEN "ram"
    ELSE "none"

\* emergency_action without the test of the protected names
emergency_action_all(containers) == containers

\* emergency_action: the containers kill_container is called for
emergency_action(containers) == containers \ PROTECTED_CONTAINERS

\* one pass of the loop of run_watchdog
WatchPass ==
    /\ Len(watch.readings) < MaxReadings
    /\ \E reading \in WatchReadings, containers \in ContainerLists :
          LET class == reading_class(reading)
              count == IF class = "none" THEN 0
                       ELSE consecutive_critical + 1
              fires == count >= 3
          IN  /\ consecutive_critical' = IF fires THEN 0 ELSE count
              /\ watch' =
                   [readings |-> Append(watch.readings,
                                        [class |-> class, fired |-> fires]),
                    fired |-> fires,
                    running |-> IF fires THEN containers ELSE {},
                    stopped |-> IF fires THEN emergency_action(containers)
                                ELSE {}]
    /\ UNCHANGED <<orchVars, shiftVars, auxVars, inflight, jobs, checked,
                   registry>>

-----------------------------------------------------------------------------
(* validation/genome_bank.py: the registry of GenomeBank.  An entry is  *)
(* given by its version and its status; a version is the number of its   *)
(* release                                                                *)

GenomeStatus ==
    {"candidate", "testing", "approved", "rejected", "active", "archived"}

BankVersions == 1..MaxVersions

\* the versions registered for all the roles together
Registered(reg) ==
    { <<role, i>> \in BankRoles \X (1..MaxVersions) : i <= Len(reg[role]) }

\* the positions of the entries of a list that carry the version
EntriesOf(list, version) ==
    { i \in 1..Len(list) : list[i].version = version }

\* the position of the first of them
FirstEntry(list, version) ==
    CHOOSE i \in EntriesOf(list, version) :
        \A j \in EntriesOf(list, version) : i <= j

\* list.remove(existing)
RemoveAt(list, i) == SubSeq(list, 1, i - 1) \o SubSeq(list, i + 1, Len(list))

\* register: an entry of the same version is replaced, the new entry goes
\* to the end of the list of its role
register(reg, role, version, status) ==
    LET list == reg[role]
        kept == IF EntriesOf(list, version) = {} THEN list
                ELSE RemoveAt(list, FirstEntry(list, version))
    IN  [reg EXCEPT ![role] = Append(kept, [version |-> version,
                                            status |-> status])]

\* update_status: the registry afterwards and the value returned
update_status(reg, role, version, status) ==
    LET list == reg[role]
    IN  IF EntriesOf(list, version) = {}
        THEN [registry |-> reg, ret |-> FALSE]
        ELSE LET e == FirstEntry(list, version)
                 set == [list EXCEPT ![e].status = status]
                 others == [i \in 1..Len(set) |->
                              IF /\ set[i].version # version
                                 /\ set[i].status = "active"
                              THEN [set[i] EXCEPT !.status = "archived"]
                              ELSE set[i]]
             IN  [registry |-> [reg EXCEPT ![role] =
                                  IF status = "active" THEN others ELSE set],
                  ret |-> TRUE]

\* promote without the test of the status
promote_any(reg, role, version) ==
    update_status(reg, role, version, "active")

\* promote
promote(reg, role, version) ==
    LET list == reg[role]
    IN  IF EntriesOf(list, version) = {}
        THEN [registry |-> reg, ret |-> FALSE]
        ELSE IF list[FirstEntry(list, version)].status # "approved"
        THEN [registry |-> reg, ret |-> FALSE]
        ELSE update_status(reg, role, version, "active")

\* rollback: the last entry that is approved or archived is made active;
\* the value returned is its version (0: None)
rollback(reg, role) ==
    LET list == reg[role]
        approved_versions ==
            { i \in 1..Len(list) : list[i].status \in {"approved", "archived"} }
    IN  IF approved_versions = {}
        THEN [registry |-> reg, ret |-> 0]
        ELSE LET target == CHOOSE i \in approved_versions :
                               \A j \in approved_versions : j <= i
             IN  [registry |-> update_status(reg, role, list[target].version,
                                             "active").registry,
                  ret |-> list[target].version]

\* GenomeBank.register for a genome whose status is not active.  Of the
\* calls on the bank, call follows the promote calls: the argument and the
\* value returned of the promote call that was the last call made
Register ==
    /\ \E role \in BankRoles, version \in BankVersions,
          status \in GenomeStatus \ {"active"} :
          /\ \/ EntriesOf(registry[role], version) # {}
             \/ Cardinality(Registered(registry)) < MaxVersions
          /\ registry' = register(registry, role, version, status)
          /\ call' = NoCall
    /\ UNCHANGED <<orchVars, shiftVars, xstream, popped, inflight, jobs,
                   checked, consecutive_critical, watch>>

\* GenomeBank.update_status
UpdateStatus ==
    /\ \E role \in BankRoles, version \in BankVersions,
          status \in GenomeStatus :
          /\ registry' = update_status(registry, role, version,
                                       status).registry
          /\ call' = NoCall
    /\ UNCHANGED <<orchVars, shiftVars, xstream, popped, inflight, jobs,
                   checked, consecutive_critical, watch>>

\* GenomeBank.promote
Promote ==
    /\ \E role \in BankRoles, version \in BankVersions :
          LET p == promote(registry, role, version)
          IN  /\ registry' = p.registry
              /\ call' = [Call("promote",
                               [role |-> role, version |-> version])
                            EXCEPT !.out = p.ret, !.done = TRUE]
    /\ UNCHANGED <<orchVars, shiftVars, xstream, popped, inflight, jobs,
                   checked, consecutive_critical, watch>>

\* GenomeBank.rollback
Rollback ==
    /\ \E role \in BankRoles :
          /\ registry' = rollback(registry, role).registry
          /\ call' = NoCall
    /\ UNCHANGED <<orchVars, shiftVars, xstream, popped, inflight, jobs,
                   checked, consecutive_critical, watch>>

-----------------------------------------------------------------------------
(* Properties of the task bus and of the admission cycle *)

LaneIndex(lane) == CHOOSE i \in 1..Len(QueuePriority) : QueuePriority[i] = lane

\* a _cycle call returns (or raises) in this step
CycleEnds == cycle_count' # cycle_count

\* the cycle that ends in this step popped a task
CyclePopped == CycleEnds /\ last'.stamp # 0

\* the queued entry the cycle that ends in this step popped
PoppedEntry ==
    CHOOSE e \in {lanes[last'.lane][i] : i \in 1..Len(lanes[last'.lane])} :
        e.stamp = last'.stamp

StampsOf(list) == {list[i].stamp : i \in 1..Len(list)}

\* the number of entries the three lanes hold
Queued(ls) == Len(ls["QUEUE:CRITICAL"]) + Len(ls["QUEUE:EXPORT"])
                  + Len(ls["QUEUE:INTERNAL"])

TaskIdsIn(ls) ==
    UNION { {ls[l][i].task.task_id : i \in 1..Len(ls[l])} : l \in Lanes }

\* C1: every pop_task that returns a task returns the oldest-pushed task of
\* the highest-precedence non-empty lane: every lane of higher precedence is
\* empty at the pop, and no task of the lane it comes from was pushed before it
C1_PopOrder ==
    [][CyclePopped =>
        /\ last'.stamp \in StampsOf(lanes[last'.lane])
        /\ \A s \in StampsOf(lanes[last'.lane]) : last'.stamp <= s
        /\ \A l \in Lanes :
              LaneIndex(l) < LaneIndex(last'.lane) => lanes[l] = <<>>
        /\ PoppedEntry.task.task_id = last'.task_id]_vars

\* C1: a task pushed into the critical lane after an export task was popped
\* while that export task is still queued
C1_Witness ==
    /\ last.lane = "QUEUE:CRITICAL"
    /\ \E s \in StampsOf(lanes["QUEUE:EXPORT"]) : s < last.stamp

\* the reading is critical: RAM above 90 % or a CPU temperature above 85 C
CriticalReading(snapshot) ==
    \/ snapshot.ram_percent > 90
    \/ snapshot.has_temp /\ snapshot.cpu_temp_celsius > 85

\* C2: a cycle whose snapshot is critical performs no pop: the three lanes,
\* the budget and the list of dispatches are the same after it as before it
C2_CriticalSkips ==
    [][(CycleEnds /\ CriticalReading(last'.snapshot)) =>
        /\ lanes' = lanes
        /\ budget' = budget
        /\ dispatched' = dispatched
        /\ last'.stamp = 0]_vars

\* C2: a cycle with a critical reading of the CPU temperature ended while a
\* task was waiting
C2_Witness ==
    /\ last.outcome = "critical"
    /\ last.snapshot.ram_percent <= 90
    /\ \E l \in Lanes : lanes[l] # <<>>

\* C3: when the estimated cost of the popped task exceeds the budget, the
\* cycle ends with the task queued again, the lane it was popped from as long
\* as before, the budget unchanged and the executor not invoked
C3_DeferKeepsLane ==
    [][(CyclePopped /\ last'.cost > budget /\ last'.outcome # "raised") =>
        /\ last'.task_id \in TaskIdsIn(lanes')
        /\ Len(lanes'[last'.lane]) = Len(lanes[last'.lane])
        /\ budget' = budget
        /\ dispatched' = dispatched]_vars

\* C4: the budget changes only in a cycle whose dispatch returned success,
\* and then it falls by exactly the cost estimated in that cycle; it never
\* rises
C4_BudgetDebit ==
    [][/\ budget' # budget =>
            /\ CycleEnds
            /\ last'.exec_status = "200"
            /\ budget' = budget - last'.cost
       /\ (CycleEnds /\ last'.exec_status = "200") =>
            budget' = budget - last'.cost
       /\ budget' <= budget]_vars

\* C4: a dispatch succeeded and the budget fell by its estimated cost, which
\* is not the duration the executor measured
C4_Witness ==
    /\ last.outcome = "task_completed"
    /\ last.cost = 6000
    /\ budget = InitialBudget * 10 - 6000

\* C5: the budget is never negative
C5_NoOverspend == budget >= 0

\* C5: after a dispatch was paid for, the budget gate deferred a task the
\* remaining budget could not pay
C5_Witness ==
    /\ dispatched # <<>>
    /\ budget < InitialBudget * 10
    /\ last.outcome = "deferred"
    /\ last.cost <= InitialBudget * 10

\* C6: a popped task with code in its payload that passes the budget gate
\* and gets an unsafe verdict is dropped: it is in no lane, a code_blocked
\* record is appended to the incidents log, the executor is not invoked and
\* the budget is unchanged (in a cycle that does not raise)
C6_UnsafeDropped ==
    [][(/\ CyclePopped
        /\ last'.outcome # "raised"
        /\ last'.cost <= budget
        /\ PoppedEntry.task.payload.has_code
        /\ ~analyze_safe(PoppedEntry.task.payload.findings)) =>
        /\ lanes' = [lanes EXCEPT ![last'.lane] = RPopRest(@)]
        /\ logs' = [logs EXCEPT !["LOG:INCIDENTS"] =
                        Append(@, [event |-> "code_blocked",
                                   task_id |-> last'.task_id])]
        /\ dispatched' = dispatched
        /\ budget' = budget]_vars

\* C6: a task was dropped by the safety gate
C6_Witness ==
    /\ last.outcome = "blocked"
    /\ last.task_id \notin TaskIdsIn(lanes)
    /\ logs["LOG:INCIDENTS"] # <<>>

\* C7: after a cycle that raised, the loop proceeds to the next tick: it is
\* still running and waits for the next cycle
C7_LoopSurvives ==
    [][(CycleEnds /\ last'.outcome = "raised") =>
        (pc' = "sleep" /\ running' = running)]_vars

\* C8: when the store did not answer the ping or the inference endpoint
\* could not be reached, start returned without entering the loop: no cycle
\* ran, no task was popped, nothing was dispatched, the flag was never set
C8_StartupFatal ==
    (startup.called /\ (~startup.store_up \/ ~startup.endpoint_up)) =>
        /\ pc = "done"
        /\ ~running
        /\ cycle_count = 0
        /\ last = NoCycle
        /\ dispatched = <<>>
        /\ \A s \in LogStream : logs[s] = <<>>
        /\ StampsOf(lanes["QUEUE:CRITICAL"]) \cup StampsOf(lanes["QUEUE:EXPORT"])
             \cup StampsOf(lanes["QUEUE:INTERNAL"]) = 1..produced

\* C8: start was called with the store down while tasks were waiting
C8_Witness ==
    /\ startup.called
    /\ ~startup.store_up
    /\ produced = MaxPushes

\* C9: every cycle that ends in dispatch success, deferral, rejection by the
\* safety gate or dispatch failure appends a record to a log stream
C9_DecisionLogged ==
    [][(CycleEnds /\ last'.outcome \in
            {"task_completed", "deferred", "blocked", "task_failed"}) =>
        \E s \in LogStream : Len(logs'[s]) > Len(logs[s])]_vars

\* C20: a cycle that ends in dispatch success, dispatch failure, an unsafe
\* drop or a budget deferral leaves the running flag set and the loop at its
\* sleep; the sleep leads back to the test of the flag, and while the flag is
\* set the loop leaves that test only by running another cycle
C20_LoopContinues ==
    [][/\ (CycleEnds /\ last'.outcome \in
              {"task_completed", "task_failed", "blocked", "deferred"}) =>
            (running' /\ pc' = "sleep")
       /\ (pc = "sleep" /\ pc' # pc) => pc' = "loop"
       /\ (pc = "loop" /\ running /\ pc' # pc) => CycleEnds]_vars

\* C20: after a cycle whose dispatch failed, a further cycle was run with
\* the flag still set
C20_Witness ==
    /\ cycle_count >= 2
    /\ running
    /\ logs["LOG:TASKS"] # <<>>
    /\ logs["LOG:TASKS"][1].event = "task_failed"
    /\ last.outcome = "deferred"

-----------------------------------------------------------------------------
(* Properties of the hot-swap protocol *)

\* the runtime's model list was read and holds neither the role's model nor
\* its :latest alias
ModelAbsent(role, tags) ==
    /\ tags.kind = "response"
    /\ tags.status = "200"
    /\ <<"genome-worker", role>> \notin tags.models
    /\ <<"genome-worker", role, "latest">> \notin tags.models

LastReport == shift_history[Len(shift_history)]

\* C10: execute_shift returns no COMPLETED report when the model of the
\* target role is absent from the runtime's list, and after a FAILED report
\* current_role has the value it had before the call
C10_FailedShiftKeepsRole ==
    shift_history # <<>> =>
        /\ ModelAbsent(shift_env.to_role, shift_env.tags) =>
                LastReport.status # "completed"
        /\ LastReport.status = "failed" =>
                current_role = shift_env.role_before

\* C10: a shift to a role whose model the runtime does not list has failed
C10_Witness ==
    /\ shift_history # <<>>
    /\ ModelAbsent(shift_env.to_role, shift_env.tags)
    /\ LastReport.status = "failed"
    /\ LastReport.to_role # shift_env.role_before
    /\ current_role = shift_env.role_before

\* the runtime's model list was read and holds the role's model or its
\* :latest alias
ModelListed(role, tags) ==
    /\ tags.kind = "response"
    /\ tags.status = "200"
    /\ \/ <<"genome-worker", role>> \in tags.models
       \/ <<"genome-worker", role, "latest">> \in tags.models

\* the probe prompt got a transport error, a non-success status or a reply
\* of at most 10 characters after trimming
ProbeRejected(probe) ==
    \/ probe.kind = "exception"
    \/ probe.status # "200"
    \/ Len(Strip(probe.text)) <= 10

StatusMoves ==
    { <<"pending", "validating">>, <<"validating", "handoff">>,
      <<"handoff", "testing">>, <<"testing", "completed">>,
      <<"validating", "failed">>, <<"testing", "failed">> }

\* C13: the status of the report of an execute_shift call starts at PENDING,
\* moves only along PENDING, VALIDATING, HANDOFF, TESTING, COMPLETED or from
\* VALIDATING or TESTING to FAILED, and ends at the status of the returned
\* report; every COMPLETED report has validation_ok, test_ok and handoff data
C13_StagesInOrder ==
    shift_history # <<>> =>
        /\ shift_env.trace[1] = "pending"
        /\ \A i \in 1..(Len(shift_env.trace) - 1) :
              <<shift_env.trace[i], shift_env.trace[i + 1]>> \in StatusMoves
        /\ shift_env.trace[Len(shift_env.trace)] = LastReport.status
        /\ LastReport.status \in {"completed", "failed"}
        /\ \A i \in 1..Len(shift_history) :
              shift_history[i].status = "completed" =>
                /\ shift_history[i].validation_ok
                /\ shift_history[i].test_ok
                /\ shift_history[i].handoff_data # NoHandoff

\* C13: a shift went from PENDING through VALIDATING to FAILED
C13_Witness ==
    /\ shift_history # <<>>
    /\ shift_env.trace = <<"pending", "validating", "failed">>
    /\ LastReport.status = "failed"

\* C14: a shift to a role whose model the runtime lists passes validation
\* and reaches HANDOFF; a shift to a role whose model is absent from the list
\* the runtime returned fails with validation_ok false and the 'model not
\* ready' error
C14_ValidateByListing ==
    shift_history # <<>> =>
        /\ ModelListed(shift_env.to_role, shift_env.tags) =>
              /\ LastReport.validation_ok
              /\ \E i \in 1..Len(shift_env.trace) :
                    shift_env.trace[i] = "handoff"
        /\ ModelAbsent(shift_env.to_role, shift_env.tags) =>
              /\ ~LastReport.validation_ok
              /\ LastReport.status = "failed"
              /\ LastReport.error = "model_not_ready"

-----------------------------------------------------------------------------
(* Properties of the functions that keep no state *)

Returned(fn) == call.fn = fn /\ call.done

C17_CriticalReason ==
    (Returned("estimate_task_cost") /\ CriticalReading(call.arg.snapshot)) =>
        /\ ~call.out.feasible
        /\ call.out.reason # <<>>
        /\ call.out.reason[1] = "SYSTEM_CRITICAL"

\* C18: _select_role returns the role of the first item of the keyword
\* table whose keyword is a substring of the lower-cased task type, and
\* SYSADMIN when no keyword is
C18_FirstKeywordWins ==
    Returned("_select_role") =>
        LET t == Lower(call.arg)
            hit(k) == IsSubstring(mapping[k].kw, t)
        IN  /\ \A k \in 1..Len(mapping) :
                  (hit(k) /\ \A j \in 1..(k - 1) : ~hit(j)) =>
                      call.out = mapping[k].role
            /\ (\A k \in 1..Len(mapping) : ~hit(k)) =>
                  call.out = "sysadmin"

\* C18: the type "system_cleanup" holds the keywords "system" and "clean",
\* of different roles, and got the role of the earlier one
C18_Witness ==
    /\ Returned("_select_role")
    /\ call.arg = <<"s", "y", "s", "t", "e", "m", "_", "c", "l", "e", "a",
                    "n", "u", "p">>
    /\ IsSubstring(<<"c", "l", "e", "a", "n">>, call.arg)
    /\ call.out = "sysadmin"

\* the cost request failed, or its reply holds no digit
CostUnknown(reply) ==
    \/ reply.kind # "response"
    \/ reply.status # "200"
    \/ \A i \in 1..Len(reply.text) : reply.text[i] \notin Digits

\* C19: _estimate_cost returns a non-negative number whatever the answer:
\* 5.0 on a timeout, a transport error, a non-200 status, a malformed body
\* or a reply without a number, and otherwise the first decimal number of
\* the reply text
C19_CostFallback ==
    Returned("_estimate_cost") =>
        /\ call.out \in Nat
        /\ CostUnknown(call.arg) => call.out = 50
        /\ ~CostUnknown(call.arg) => call.out = FirstNumber(call.arg.text)

\* C19: the reply "cost: 12.5 u" gave 12.5
C19_Witness ==
    /\ Returned("_estimate_cost")
    /\ call.arg.status = "200"
    /\ call.arg.text = <<"c", "o", "s", "t", ":", " ", "1", "2", ".", "5",
                         " ", "u">>
    /\ call.out = 125

-----------------------------------------------------------------------------
(* Properties of the executor *)

\* the role an execute call works with: the one passed, else the one held
EffectiveRole ==
    IF call.arg.role # None THEN call.arg.role ELSE call.arg.current_role

\* C21: execute called for a role of the registry returns a result and does
\* not raise; a timeout, a transport exception and an answer whose status is
\* not 200 each give a result with success False and the error text of that
\* failure, and a result with success True comes from an answer of status 200
C21_ExecuteReturns ==
    (Returned("execute") /\ EffectiveRole \in WorkerRole) =>
        LET resp == call.arg.resp
            result == call.out.result
        IN  /\ ~result.raised
            /\ result.role = EffectiveRole
            /\ (resp.kind = "timeout" =>
                   ~result.success /\ result.error = <<"timeout", 300>>)
            /\ (resp.kind = "exception" =>
                   ~result.success /\ result.error = <<"str", resp.message>>)
            /\ (resp.kind # "timeout" /\ resp.kind # "exception"
                       /\ resp.status # "200" =>
                   /\ ~result.success
                   /\ result.error
                          = <<"Ollama HTTP", resp.status, resp.message>>)
            /\ (result.success => resp.status = "200")
            /\ (~result.success => result.error # <<>>)

\* a transport exception met by an execute call for a registered role
C21_Witness ==
    /\ Returned("execute")
    /\ call.arg.role = "auditor"
    /\ call.arg.resp.kind = "exception"
    /\ ~call.out.result.raised
    /\ ~call.out.result.success

-----------------------------------------------------------------------------
(* Properties of the admission gates, the loop and the deferral *)

\* the entries of a list from its push end to its pop end, without stamps
TasksOf(list) == [i \in 1..Len(list) |-> list[i].task]

\* C22: a deferred task is pushed again into the lane it was popped from, at
\* the push end of that lane, behind every entry the lane still holds; this
\* includes a task that was pushed with an explicit priority other than its
\* priority field
C22_DeferSameLane ==
    [][(CyclePopped /\ last'.outcome = "deferred") =>
        TasksOf(lanes'[last'.lane])
            = <<PoppedEntry.task>> \o TasksOf(RPopRest(lanes[last'.lane]))]_vars

-----------------------------------------------------------------------------
(* Properties of the stages and the reports of execute_shift *)

InTrace(status) ==
    \E i \in 1..Len(shift_env.trace) : shift_env.trace[i] = status

C24_OneReportEachCall ==
    [][shift_history' # shift_history =>
        /\ Len(shift_history') = Len(shift_history) + 1
        /\ SubSeq(shift_history', 1, Len(shift_history)) = shift_history
        /\ shift_history'[Len(shift_history')].status
               \in {"completed", "failed"}
        /\ shift_env'.trace[Len(shift_env'.trace)]
               = shift_history'[Len(shift_history')].status
        /\ shift_env'.completed_at # 0
        /\ shift_env'.completed_at >= shift_env'.started_at
        /\ shift_env'.started_at = started_at(Len(shift_history))]_vars

\* a second call has returned a FAILED report with both timestamps
C24_Witness ==
    /\ Len(shift_history) = 2
    /\ LastReport.status = "failed"
    /\ shift_env.started_at > ClockStart
    /\ shift_env.completed_at >= shift_env.started_at

\* C25: a cycle passes its gates in the order resource check, pop, cost
\* estimate, budget gate, safety gate, dispatch: a cycle that finds the
\* resources critical pops nothing; the executor is invoked only for a popped
\* task after the resource check, the budget gate and the safety gate have
\* all let it pass; and a task that is both unaffordable and unsafe is
\* queued again by the budget gate with no incident logged, not dropped by
\* the safety gate
C25_GateOrder ==
    [][/\ (CycleEnds /\ is_critical(last'.snapshot)) =>
              /\ last'.stamp = 0
              /\ lanes' = lanes
       /\ dispatched' # dispatched =>
              /\ CyclePopped
              /\ ~is_critical(last'.snapshot)
              /\ last'.cost <= budget
              /\ PoppedEntry.task.payload.has_code =>
                     analyze_safe(PoppedEntry.task.payload.findings)
              /\ dispatched' = Append(dispatched, last'.task_id)
       /\ (/\ CyclePopped
           /\ last'.outcome # "raised"
           /\ last'.cost > budget
           /\ PoppedEntry.task.payload.has_code
           /\ ~analyze_safe(PoppedEntry.task.payload.findings)) =>
              /\ last'.outcome = "deferred"
              /\ last'.task_id \in TaskIdsIn(lanes')
              /\ logs' = logs
              /\ dispatched' = dispatched]_vars

\* a task whose code is unsafe and whose cost exceeds the budget was queued
\* again
C25_Witness ==
    /\ last.outcome = "deferred"
    /\ last.cost > budget
    /\ \E l \in Lanes : \E i \in 1..Len(lanes[l]) :
          /\ lanes[l][i].task.task_id = last.task_id
          /\ lanes[l][i].task.payload.has_code
          /\ ~analyze_safe(lanes[l][i].task.payload.findings)

\* C26: stopping is cooperative.  A step that clears the running flag
\* outside a cycle changes nothing else, the position of the loop included;
\* a cycle starts only at the test of the flag and only while the flag is
\* set; and once the flag is cleared it stays cleared, no further cycle runs,
\* no task is dispatched, the budget stays, and the loop only moves from its
\* sleep to the test of the flag and from there to its end
C26_CooperativeStop ==
    [][/\ (running /\ ~running' /\ ~CycleEnds) =>
              /\ pc' = pc
              /\ UNCHANGED <<lanes, stamps, budget, cycle_count, logs,
                             dispatched, last, produced, startup>>
       /\ CycleEnds => (running /\ pc = "loop")
       /\ (~running /\ pc # "init") =>
              /\ ~running'
              /\ ~CycleEnds
              /\ dispatched' = dispatched
              /\ budget' = budget
              /\ logs' = logs
              /\ \/ pc' = pc
                 \/ pc = "sleep" /\ pc' = "loop"
                 \/ pc = "loop" /\ pc' = "done"]_vars

\* the flag was cleared after a dispatch was settled, and the loop has ended
\* without a crash
C26_Witness ==
    /\ pc = "done"
    /\ ~running
    /\ last.outcome = "task_completed"
    /\ budget = InitialBudget * 10 - last.cost
    /\ logs["LOG:INCIDENTS"] = <<>>

\* a cycle that pops the task the last cycle deferred and defers it again
DeferAgain ==
    /\ Cycle
    /\ last'.outcome = "deferred"
    /\ last'.task_id = last.task_id

\* C27: a task whose cost exceeds the budget can be deferred without end.
\* After a deferral the task is queued, its cost still exceeds the budget and
\* nothing was dispatched or debited for it; and whenever the loop is at its
\* test with that task next to be popped, a cycle that defers it once more
\* is possible.  So a queued task need not ever be dispatched or dropped.
C27_DeferralRecurs ==
    last.outcome = "deferred" =>
        /\ last.task_id \in TaskIdsIn(lanes)
        /\ last.cost > budget
        /\ \A i \in 1..Len(dispatched) : dispatched[i] # last.task_id
        /\ (/\ pc = "loop"
            /\ running
            /\ cycle_count < MaxCycles
            /\ pop_task(lanes).entry.task.task_id = last.task_id) =>
               ENABLED DeferAgain

\* the same task was deferred by two cycles in a row and waits for a third
C27_Witness ==
    /\ cycle_count >= 2
    /\ produced = 1
    /\ stamps = 3
    /\ last.outcome = "deferred"
    /\ dispatched = <<>>
    /\ budget = InitialBudget * 10
    /\ last.task_id \in TaskIdsIn(lanes)

-----------------------------------------------------------------------------
(* Properties of the log streams and of the lanes *)

\* a log call returns the id of the entry it added, which is greater than
\* every id the stream held; a read returns no entry older than its cursor
\* and only entries the stream holds
IdsAndReads ==
    /\ xstream'.last # xstream.last =>
          /\ xstream'.last > xstream.last
          /\ xstream'.returned = xstream'.last
          /\ xstream'.returned > xstream.returned
    /\ xstream'.first >= xstream.first
    /\ xstream'.read.lo # 0 =>
          /\ xstream'.read.lo >= xstream'.read.cursor
          /\ xstream'.read.lo >= xstream'.first
          /\ xstream'.read.hi >= xstream'.read.lo
          /\ xstream'.read.hi <= xstream'.last

\* C28: a log stream never holds more than 10,000 entries, the oldest are
\* evicted first, entry ids are strictly increasing and a read from an id
\* returned earlier yields no older entry
C28_StreamCapped ==
    [][StreamLen(xstream') <= MAXLEN /\ IdsAndReads]_vars

\* C28, amended: a log stream is trimmed by whole nodes, oldest first, so it
\* holds fewer than 10,000 entries plus one node, and never falls below
\* 10,000 entries once it held that many; entry ids are strictly increasing
\* and a read from an id returned earlier yields no older entry
C28_StreamNearlyCapped ==
    [][/\ StreamLen(xstream') < MAXLEN + NodeEntries
       /\ StreamLen(xstream) >= MAXLEN => StreamLen(xstream') >= MAXLEN
       /\ IdsAndReads]_vars

\* a stream that was trimmed holds more than 10,000 entries, and a read
\* from the id of an evicted entry starts at the oldest entry kept
C28_Witness ==
    /\ xstream.first > 1
    /\ StreamLen(xstream) > MAXLEN
    /\ xstream.read.called
    /\ xstream.read.cursor = xstream.mark
    /\ xstream.read.cursor < xstream.first
    /\ xstream.read.lo = xstream.first

\* C29: estimate_task_cost returns feasible=False exactly when the RAM of
\* the profile exceeds 85 % of the available RAM, or its CPU share exceeds
\* 85 % of the idle CPU share, or the snapshot is critical; otherwise it
\* returns feasible=True with an empty reason; and a task type that has no
\* profile is costed with the default profile (1.0 GB, 40 %, 30 s)
C29_FeasibleExactly ==
    Returned("estimate_task_cost") =>
        LET snapshot == call.arg.snapshot
            cost == call.out
            short ==
                \/ cost.ram_gb * 1024 * 100
                       > snapshot.ram_available_mb * 10 * 85
                \/ cost.cpu_percent * 100 > (100 - snapshot.cpu_percent) * 85
                \/ CriticalReading(snapshot)
        IN  /\ cost.feasible <=> ~short
            /\ cost.feasible <=> (cost.reason = <<>>)
            /\ (~call.arg.custom_profile.given
                    /\ call.arg.task_type \notin ProfileNames) =>
                  /\ cost.ram_gb = 10
                  /\ cost.cpu_percent = 40
                  /\ cost.time_sec = 30
                  /\ cost.total_units = 23000

\* a profile that needs exactly 85 % of the available RAM and of the idle
\* CPU share is feasible
C29_Witness ==
    /\ Returned("estimate_task_cost")
    /\ call.arg.custom_profile = Profile(85, 68, 1)
    /\ call.arg.snapshot.ram_available_mb = 10240
    /\ call.arg.snapshot.cpu_percent = 20
    /\ call.out.feasible
    /\ call.out.reason = <<>>

\* C30: push_task puts the task at the push end of the lane passed as
\* priority, and when none is passed of the lane its priority field maps to
\* (critical, export, internal; any other value: the internal lane), leaving
\* the other lanes as they were; it adds an entry whether or not the task
\* is queued already, so every push is matched by one entry to pop
C30_PushPlacement ==
    [][/\ stamps' # stamps =>
            LET task == call'.arg.task
                lane ==
                    IF call'.arg.priority # None THEN call'.arg.priority
                    ELSE IF task.priority = "critical" THEN "QUEUE:CRITICAL"
                    ELSE IF task.priority = "export" THEN "QUEUE:EXPORT"
                    ELSE "QUEUE:INTERNAL"
            IN  /\ lanes'[lane]
                       = <<[task |-> task, stamp |-> stamps']>> \o lanes[lane]
                /\ \A l \in Lanes \ {lane} : lanes'[l] = lanes[l]
       /\ Queued(lanes') + Len(popped') = stamps']_vars

\* one task was pushed twice and popped twice
C30_Witness ==
    /\ Len(popped) >= 2
    /\ popped[1] = popped[2]
    /\ Queued(lanes) = 0

-----------------------------------------------------------------------------
(* Properties of the decisions of a cycle and of what becomes of a task *)

\* C31: one admission decision at a time.  A cycle is one step of the loop,
\* taken at the test of the running flag and left at the sleep or at the end
\* of the loop; it takes at most one entry out of the lanes, puts back at
\* most one, and invokes the executor at most once; and a cycle whose pop
\* times out on empty lanes ends idle: no dispatch, no push, no log entry,
\* the budget unchanged
C31_OneDecision ==
    [][CycleEnds =>
        /\ cycle_count' = cycle_count + 1
        /\ pc = "loop"
        /\ pc' \in {"sleep", "done"}
        /\ Queued(lanes') >= Queued(lanes) - 1
        /\ Queued(lanes') <= Queued(lanes)
        /\ stamps' <= stamps + 1
        /\ \/ dispatched' = dispatched
           \/ dispatched' = Append(dispatched, last'.task_id)
        /\ (/\ ~CriticalReading(last'.snapshot)
            /\ Queued(lanes) = 0
            /\ last'.outcome # "raised") =>
               /\ last'.outcome = "idle"
               /\ last'.stamp = 0
               /\ lanes' = lanes
               /\ stamps' = stamps
               /\ dispatched' = dispatched
               /\ budget' = budget
               /\ logs' = logs]_vars

\* a cycle found the lanes empty after an earlier cycle dispatched the one
\* task that was queued
C31_Witness ==
    /\ cycle_count = 2
    /\ last.outcome = "idle"
    /\ Len(dispatched) = 1
    /\ Queued(lanes) = 0

\* the lanes without the entry the cycle that ends in this step popped
LanesAfterPop == [lanes EXCEPT ![last'.lane] = RPopRest(@)]

\* C32: a cycle that pops a task and does not raise ends in exactly one of
\* four ways: the task is queued again and not dispatched (budget gate), or
\* it is in no lane and not dispatched (safety gate), or it is in no lane and
\* was dispatched once, with success or with failure.  A cycle puts no task
\* into a lane but the one it popped, so no task is dispatched twice and no
\* dispatched task is queued
C32_TaskConservation ==
    [][/\ (CyclePopped /\ last'.outcome # "raised") =>
            /\ last'.outcome
                   \in {"deferred", "blocked", "task_completed", "task_failed"}
            /\ last'.outcome = "deferred" =>
                   /\ Queued(lanes') = Queued(lanes)
                   /\ last'.task_id \in TaskIdsIn(lanes')
                   /\ dispatched' = dispatched
            /\ last'.outcome = "blocked" =>
                   /\ lanes' = LanesAfterPop
                   /\ dispatched' = dispatched
            /\ last'.outcome \in {"task_completed", "task_failed"} =>
                   /\ lanes' = LanesAfterPop
                   /\ dispatched' = Append(dispatched, last'.task_id)
       /\ CycleEnds => TaskIdsIn(lanes') \subseteq TaskIdsIn(lanes)
       /\ \A i, j \in 1..Len(dispatched') :
              dispatched'[i] = dispatched'[j] => i = j
       /\ \A i \in 1..Len(dispatched') :
              dispatched'[i] \notin TaskIdsIn(lanes')]_vars

\* of two tasks pushed, one was dispatched and the other dropped by the
\* safety gate, and the lanes are empty
C32_Witness ==
    /\ produced = 2
    /\ Len(dispatched) = 1
    /\ last.outcome = "blocked"
    /\ last.task_id # dispatched[1]
    /\ Queued(lanes) = 0

\* the number of times a task was dispatched
TimesDispatched(id) ==
    Cardinality({i \in 1..Len(dispatched) : dispatched[i] = id})

\* C33: a task whose dispatch failed is not queued again: every task of a
\* task_failed record of the task log is in none of the three lanes and was
\* dispatched exactly once
C33_FailedNotRequeued ==
    \A i \in 1..Len(logs["LOG:TASKS"]) :
        logs["LOG:TASKS"][i].event = "task_failed" =>
            /\ logs["LOG:TASKS"][i].task_id \notin TaskIdsIn(lanes)
            /\ TimesDispatched(logs["LOG:TASKS"][i].task_id) = 1

\* a dispatch failed and a later cycle found the lanes empty
C33_Witness ==
    /\ cycle_count = 2
    /\ Len(logs["LOG:TASKS"]) = 1
    /\ logs["LOG:TASKS"][1].event = "task_failed"
    /\ last.outcome = "idle"
    /\ Len(dispatched) = 1

\* C34: head-of-line blocking.  When the critical lane holds a single task
\* and the cost estimated for it exceeds the budget, a cycle with a
\* non-critical snapshot pops that task and queues it again; it pops nothing
\* from the export and the internal lane and dispatches nothing, whatever
\* waits there; and when the priority field of the task is critical the
\* critical lane holds the task again, so the next cycle meets the same
\* state
C34_HeadOfLine ==
    [][(/\ CycleEnds
        /\ Len(lanes["QUEUE:CRITICAL"]) = 1
        /\ ~CriticalReading(last'.snapshot)
        /\ last'.outcome # "raised"
        /\ last'.cost > budget) =>
        /\ last'.lane = "QUEUE:CRITICAL"
        /\ last'.stamp = lanes["QUEUE:CRITICAL"][1].stamp
        /\ last'.outcome = "deferred"
        /\ last'.task_id \in TaskIdsIn(lanes')
        /\ dispatched' = dispatched
        /\ \A l \in {"QUEUE:EXPORT", "QUEUE:INTERNAL"} :
              StampsOf(lanes[l]) \subseteq StampsOf(lanes'[l])
        /\ lanes["QUEUE:CRITICAL"][1].task.priority = "critical" =>
              /\ TasksOf(lanes'["QUEUE:CRITICAL"])
                     = TasksOf(lanes["QUEUE:CRITICAL"])
              /\ lanes'["QUEUE:EXPORT"] = lanes["QUEUE:EXPORT"]
              /\ lanes'["QUEUE:INTERNAL"] = lanes["QUEUE:INTERNAL"]]_vars

\* two cycles deferred the one task of the critical lane while a task
\* waited in the internal lane, and nothing was dispatched
C34_Witness ==
    /\ cycle_count = 2
    /\ stamps = 4
    /\ last.outcome = "deferred"
    /\ last.lane = "QUEUE:CRITICAL"
    /\ Len(lanes["QUEUE:CRITICAL"]) = 1
    /\ lanes["QUEUE:CRITICAL"][1].task.task_id = last.task_id
    /\ lanes["QUEUE:INTERNAL"] # <<>>
    /\ dispatched = <<>>

-----------------------------------------------------------------------------
(* Properties of execute_shift calls that share the event loop *)

\* the positions of the COMPLETED reports in the history
CompletedAt == { i \in 1..Len(shift_history) :
                    shift_history[i].status = "completed" }

\* the probe prompt got status 200 and a reply of more than ten characters
ProbeAccepted(probe) ==
    /\ probe.kind = "response"
    /\ probe.status = "200"
    /\ Len(Strip(probe.text)) > MinReplyLen

-----------------------------------------------------------------------------
(* Properties of the role the executor holds *)

\* C36: after execute was called with a role of the registry the executor
\* holds that role, whatever the runtime listed and whether the call
\* succeeded or not; execute called with no role by an executor that holds
\* none returns a result with success False, sends no request to the
\* endpoint and leaves the executor without a role
C36_ExecuteSetsRole ==
    Returned("execute") =>
        /\ call.arg.role \in WorkerRole =>
              call.out.current_role = call.arg.role
        /\ (call.arg.role = None /\ call.arg.current_role = None) =>
              /\ ~call.out.result.raised
              /\ ~call.out.result.success
              /\ call.out.result.role = "none"
              /\ call.out.requests = <<>>
              /\ call.out.current_role = None

\* execute for a role whose model the runtime did not list, by an executor
\* that held another role, has failed and left the executor with the new role
C36_Witness ==
    /\ Returned("execute")
    /\ call.arg.role = "auditor"
    /\ call.arg.current_role = "sysadmin"
    /\ call.arg.tags.models = {}
    /\ ~call.out.result.success
    /\ call.out.current_role = "auditor"

-----------------------------------------------------------------------------
(* Properties of the routing of the task types of the job table *)

\* WorkerRole(role).value as the text of a task type
RoleValue(role) ==
    CASE role = "sysadmin"  -> <<"s", "y", "s", "a", "d", "m", "i", "n">>
      [] role = "auditor"   -> <<"a", "u", "d", "i", "t", "o", "r">>
      [] role = "economist" -> <<"e", "c", "o", "n", "o", "m", "i", "s", "t">>
      [] role = "cleaner"   -> <<"c", "l", "e", "a", "n", "e", "r">>
      [] role = "mchs"      -> <<"m", "c", "h", "s">>

\* C37: a task whose type is exactly the name of a role of WorkerRole, as the
\* types of the job table are, is routed by _select_role to that role
C37_RoleNameRoutesToRole ==
    Returned("_select_role") =>
        \A role \in WorkerRole :
            call.arg = RoleValue(role) => call.out = role

-----------------------------------------------------------------------------
(* Properties of the scheduler *)

\* how many times x occurs in a sequence
Occurrences(seq, x) == Cardinality({ i \in 1..Len(seq) : seq[i] = x })

\* the places in the lists of the tasks that carry the name of a job
QueuedOf(ls, name) ==
    { <<l, i>> \in Lanes \X (1..15) :
        i <= Len(ls[l]) /\ ls[l][i].task.task_id[2] = name }

\* C38: in a _check_jobs call that finds the snapshot in range, _submit_job
\* is called once for each enabled job whose interval has passed and for no
\* other, each such job has its last_run set to the clock of the call and its
\* run_count raised by one, whether or not the bus took its task, and the
\* lists gain at most one task of it; a job that was not due is left as it
\* was.  In a call that finds the snapshot critical no job is submitted and
\* the job table and the lists stay as they were
C38_DueJobsAdvance ==
    [][checked'.calls = checked.calls + 1 =>
        LET now == checked'.now
        IN  IF checked'.critical
            THEN /\ jobs' = jobs
                 /\ lanes' = lanes
                 /\ checked'.submit_calls = <<>>
                 /\ checked'.pushed = <<>>
            ELSE \A i \in 1..Len(jobs) :
                    IF jobs[i].enabled
                       /\ now - jobs[i].last_run >= jobs[i].interval_sec
                    THEN /\ Occurrences(checked'.submit_calls,
                                        jobs[i].name) = 1
                         /\ jobs'[i].last_run = now
                         /\ jobs'[i].run_count = jobs[i].run_count + 1
                         /\ Cardinality(QueuedOf(lanes', jobs[i].name))
                               <= Cardinality(QueuedOf(lanes,
                                                       jobs[i].name)) + 1
                    ELSE /\ Occurrences(checked'.submit_calls,
                                        jobs[i].name) = 0
                         /\ jobs'[i] = jobs[i]
                         /\ Cardinality(QueuedOf(lanes', jobs[i].name))
                               = Cardinality(QueuedOf(lanes,
                                                      jobs[i].name))]_vars

\* a second call found the health check due again while the store was down:
\* the job was submitted, no task was taken, and its counters advanced
C38_Witness ==
    /\ checked.calls >= 2
    /\ ~checked.critical
    /\ "system_health_check" \in checked.due
    /\ Occurrences(checked.submit_calls, "system_health_check") = 1
    /\ checked.pushed = <<>>
    /\ jobs[1].last_run = checked.now
    /\ jobs[1].run_count = 2

-----------------------------------------------------------------------------
(* Properties of the watchdog *)

\* the passes made so far
Passes == watch.readings

\* C39: a pass of the watchdog runs the emergency action only when its
\* reading and the readings of the two passes before it were over a
\* threshold, of the temperature or of the memory, and neither of those two
\* passes ran it; a pass whose reading is in range sets the counter to zero,
\* a pass that runs the action sets it to zero, any other pass raises it by
\* one; the action runs whenever the counter stood at two and the reading is
\* over a threshold; and the action stops only containers that were listed
\* and none of the protected ones
C39_ThirdReadingFires ==
    [][Len(watch'.readings) = Len(watch.readings) + 1 =>
        LET n == Len(watch'.readings)
            this == watch'.readings[n]
        IN  /\ watch'.fired = this.fired
            /\ this.fired =>
                  /\ n >= 3
                  /\ \A k \in (n - 2)..n : watch'.readings[k].class # "none"
                  /\ \A k \in (n - 2)..(n - 1) : ~watch'.readings[k].fired
                  /\ consecutive_critical = 2
                  /\ consecutive_critical' = 0
            /\ this.class = "none" =>
                  ~this.fired /\ consecutive_critical' = 0
            /\ (this.class # "none" /\ consecutive_critical = 2) =>
                  this.fired
            /\ (this.class # "none" /\ ~this.fired) =>
                  consecutive_critical' = consecutive_critical + 1
            /\ watch'.stopped \subseteq watch'.running
            /\ watch'.stopped \cap PROTECTED_CONTAINERS = {}
            /\ this.fired =>
                  watch'.stopped = watch'.running \ PROTECTED_CONTAINERS
            /\ ~this.fired => watch'.stopped = {}]_vars

\* after an in-range reading had cleared a count of two, a temperature
\* reading, a memory reading and a temperature reading in a row ran the
\* action with the protected containers listed, and left them running
C39_Witness ==
    /\ Len(Passes) = 6
    /\ Passes[1].class = "ram" /\ Passes[2].class = "cpu"
    /\ Passes[3].class = "none"
    /\ Passes[4].class = "cpu" /\ Passes[5].class = "ram"
    /\ Passes[6].class = "cpu"
    /\ \A k \in 1..5 : ~Passes[k].fired
    /\ watch.fired
    /\ "genome-redis" \in watch.running
    /\ watch.stopped = {"genome-orchestrator", "genome-dashboard"}
    /\ consecutive_critical = 0

-----------------------------------------------------------------------------
(* Properties of the version bank *)

\* the positions of the ACTIVE entries of a role
ActiveOf(reg, role) ==
    { i \in 1..Len(reg[role]) : reg[role][i].status = "active" }

\* the status of a version of a role ("unregistered": the role has none)
StatusOf(reg, role, version) ==
    IF EntriesOf(reg[role], version) = {} THEN "unregistered"
    ELSE reg[role][FirstEntry(reg[role], version)].status

\* C40: when every version was registered with a status other than active,
\* after each register, update_status, promote and rollback call every role
\* has at most one ACTIVE version; a promote call returns True and makes its
\* version ACTIVE when the status of the version was APPROVED, and returns
\* False and leaves the registry as it was otherwise
C40_OneActivePerRole ==
    [][/\ \A role \in BankRoles : Cardinality(ActiveOf(registry', role)) <= 1
       /\ call'.fn = "promote" =>
             LET role == call'.arg.role
                 version == call'.arg.version
             IN  IF StatusOf(registry, role, version) = "approved"
                 THEN /\ call'.out = TRUE
                      /\ StatusOf(registry', role, version) = "active"
                 ELSE /\ call'.out = FALSE
                      /\ registry' = registry]_vars

\* a promote call has made the approved version 2 of a role ACTIVE and the
\* version 1 that was ACTIVE before it is archived
C40_Witness ==
    /\ call.fn = "promote"
    /\ call.out = TRUE
    /\ call.arg.role = "auditor"
    /\ call.arg.version = 2
    /\ StatusOf(registry, "auditor", 2) = "active"
    /\ StatusOf(registry, "auditor", 1) = "archived"
    /\ Cardinality(ActiveOf(registry, "auditor")) = 1

Next == Push \/ Start \/ Cycle \/ Sleep \/ LoopExit \/ Stop

Spec == Init /\ [][Next]_vars

\* the hot-swap protocol on its own
NextShift == ExecuteShift

SpecShift == Init /\ [][NextShift]_vars

\* a long run of shifts
NextHistory == RotateShift

SpecHistory == Init /\ [][NextHistory]_vars

\* the functions that keep no state, one call each
NextCalls ==
    CalculateUnits \/ EstimateTaskCost \/ SelectRole \/ EstimateCost
        \/ ToJson \/ FromJson \/ Execute

SpecCalls == InitCalls /\ [][NextCalls]_vars

\* one log stream, its writer and its readers
NextLog == Log \/ ReadLog

SpecLog == InitLog /\ [][NextLog]_vars

\* the lanes with callers that push and pop directly
NextBus == BusPush \/ BusPop

SpecBus == Init /\ [][NextBus]_vars

\* execute_shift calls on one event loop
NextRace == ShiftStep

SpecRace == Init /\ [][NextRace]_vars

\* the loop of the scheduler
NextSched == CheckJobs

SpecSched == Init /\ [][NextSched]_vars

\* the loop of the watchdog
NextWatch == WatchPass

SpecWatch == Init /\ [][NextWatch]_vars

\* calls on the version bank
NextBank == Register \/ UpdateStatus \/ Promote \/ Rollback

SpecBank == Init /\ [][NextBank]_vars

====
